---- MODULE Spec2Model ----
(***************************************************************************)
(* Model of the chem-clicker2exam question-bank pipeline:                  *)
(*   exam_bank/parsing.py   header patterns, parse_pdf_to_entries,         *)
(*                          build_question_bank, save/load of the bank     *)
(*   exam_bank/regexes.py   the stand-alone header patterns                *)
(*   exam_bank/pdf_utils.py select_questions and the document builders     *)
(*   app.py                 question_id, sample_questions_even_by_topic,   *)
(*                          the session of main (Build PDFs, reset)        *)
(*   scripts/preprocess_clicker_pdf.py  compute_used_pages                 *)
(*   scripts/find_duplicates.py         analyze_duplicates                 *)
(*                                                                         *)
(* Python values are modelled as follows.  A str is a sequence of          *)
(* one-character strings, so that patterns can be matched position by      *)
(* position.  Optional[X] is None == <<>> or Some(x) == <<x>>.  A dict      *)
(* with insertion order is a sequence of values looked up by key.          *)
(***************************************************************************)
EXTENDS Integers, Sequences, FiniteSets, TLC

VARIABLES
    header,         \* SpecHeader: the header line under test
    m_parsing,      \* SpecHeader: classification by the pattern of parsing.py
    m_regexes,      \* SpecHeader: match of the pattern of regexes.py
    pages,          \* the source document: a sequence of pages, each a sequence of lines
    page_index,     \* parse_pdf_to_entries: 1-based index of the next page
    current_topic,  \* parse_pdf_to_entries: Optional[int]
    entries,        \* the entry list (output of the extractor, input of the builder)
    entry_index,    \* build_question_bank: index of the next entry of the loop
    bank,           \* build_question_bank: the dict, as the sequence of its values
    pc,             \* position of the pipeline: "parse", "build", "done", or "idle"
    questions,      \* a list of Question records held by the caller
    file,           \* the bank file: Optional[JSON document]
    loaded,         \* Optional[list]: what load_question_bank_json returned
    sel_args,       \* Optional: the arguments of the last select_questions call
    result,         \* Optional[list]: what that call returned
    used_ids,       \* the caller's set of used identifiers (app.py: the session's)
    sample,         \* Optional: arguments and return of the last sampler call
    counts,         \* allocation loop: len(by_topic[t]) for t in topics
    allocation,     \* allocation loop: allocation[t] for t in topics
    remaining,      \* allocation loop: slots still to grant
    topic_index,    \* allocation loop: position of the for loop in topics
    made_progress,  \* allocation loop: the flag of the current sweep
    src_pages,      \* the number of pages of the source document (SRC_PDF)
    output,         \* the output documents: each None or the list of source pages
    outcome,        \* the last call that wrote files and how it ended
    builds,         \* session: what the builds since the last reset returned
    page_usage,     \* Optional: the page -> identifiers dict of the summary
    duplicates      \* Optional: the set analyze_duplicates returned

vars == <<header, m_parsing, m_regexes, pages, page_index, current_topic,
          entries, entry_index, bank, pc, questions, file, loaded, sel_args, result,
          used_ids, sample, counts, allocation, remaining, topic_index, made_progress,
          src_pages, output, outcome, builds, page_usage, duplicates>>

headerVars == <<header, m_parsing, m_regexes>>
parseVars  == <<pages, page_index, current_topic>>
bankVars   == <<entries, entry_index, bank>>
storeVars  == <<file, loaded>>
selectVars == <<sel_args, result>>
sampleVars == <<used_ids, sample>>
allocVars  == <<counts, allocation, remaining, topic_index, made_progress>>
\* the variables of the application (app.py)
pdfVars    == <<src_pages, output, outcome>>
sessionVars == <<builds>>
usageVars  == <<page_usage, duplicates>>
appVars    == <<sampleVars, allocVars, pdfVars, sessionVars, usageVars>>
\* the variables outside the extraction pipeline
callerVars == <<questions, storeVars, selectVars, appVars>>

----------------------------------------------------------------------------
(* Python values *)

None == <<>>
Some(x) == <<x>>
IsNone(o) == o = <<>>
Get(o) == o[1]

----------------------------------------------------------------------------
(* Characters and the character classes used by the patterns *)

UpperCase == <<"A","B","C","D","E","F","G","H","I","J","K","L","M",
               "N","O","P","Q","R","S","T","U","V","W","X","Y","Z">>
LowerCase == <<"a","b","c","d","e","f","g","h","i","j","k","l","m",
               "n","o","p","q","r","s","t","u","v","w","x","y","z">>
DigitChars == <<"0","1","2","3","4","5","6","7","8","9">>

\* re.IGNORECASE: characters are compared after case folding
Fold(c) ==
    IF \E i \in 1..Len(UpperCase) : UpperCase[i] = c
    THEN LowerCase[CHOOSE i \in 1..Len(UpperCase) : UpperCase[i] = c]
    ELSE c

IsSpace(c) == c \in {" ", "\t", "\n"}                       \* \s
IsDigit(c) == \E i \in 1..Len(DigitChars) : DigitChars[i] = c   \* \d, [0-9]
DigitVal(c) == (CHOOSE i \in 1..Len(DigitChars) : DigitChars[i] = c) - 1
IsWordChar(c) ==                                            \* \w
    \/ IsDigit(c)
    \/ c = "_"
    \/ \E i \in 1..Len(LowerCase) : LowerCase[i] = Fold(c)

\* str.strip()
RECURSIVE LStrip(_)
LStrip(s) == IF s # <<>> /\ IsSpace(Head(s)) THEN LStrip(Tail(s)) ELSE s
RECURSIVE RStrip(_)
RStrip(s) ==
    IF s # <<>> /\ IsSpace(s[Len(s)]) THEN RStrip(SubSeq(s, 1, Len(s) - 1)) ELSE s
Strip(s) == RStrip(LStrip(s))

\* int(s) for a string of decimal digits
RECURSIVE ToInt(_)
ToInt(s) ==
    IF s = <<>> THEN 0
    ELSE 10 * ToInt(SubSeq(s, 1, Len(s) - 1)) + DigitVal(s[Len(s)])

----------------------------------------------------------------------------
(* Pattern pieces.  A position p is the 1-based index of the next          *)
(* character to read; NoMatch (0) is failure.  Every piece is greedy, and  *)
(* in the patterns below no shorter alternative of a piece can make the    *)
(* rest of the pattern match, so no backtracking is modelled except where  *)
(* stated.                                                                 *)

NoMatch == 0

\* a literal word, compared case-insensitively
Lit(h, p, w) ==
    IF /\ p # NoMatch
       /\ p + Len(w) - 1 <= Len(h)
       /\ \A i \in 1..Len(w) : Fold(h[p + i - 1]) = Fold(w[i])
    THEN p + Len(w)
    ELSE NoMatch

\* \s*
RECURSIVE SkipSpace(_, _)
SkipSpace(h, p) ==
    IF p # NoMatch /\ p <= Len(h) /\ IsSpace(h[p]) THEN SkipSpace(h, p + 1) ELSE p

\* one character of a class given as a set
OneOf(h, p, class) ==
    IF p # NoMatch /\ p <= Len(h) /\ h[p] \in class THEN p + 1 ELSE NoMatch

\* \d+ : the end of the maximal run of digits from p, NoMatch when it is empty
RECURSIVE DigitRun(_, _)
DigitRun(h, p) ==
    IF p # NoMatch /\ p <= Len(h) /\ IsDigit(h[p]) THEN DigitRun(h, p + 1) ELSE p
Digits1(h, p) ==
    IF p = NoMatch \/ DigitRun(h, p) = p THEN NoMatch ELSE DigitRun(h, p)

\* [^)]+ : the end of the maximal run of characters other than ")"
RECURSIVE NotParenRun(_, _)
NotParenRun(h, p) ==
    IF p # NoMatch /\ p <= Len(h) /\ h[p] # ")" THEN NotParenRun(h, p + 1) ELSE p

\* \b after a word character at p - 1: end of string or a non-word character
WordEnd(h, p) ==
    IF p # NoMatch /\ (p > Len(h) \/ ~IsWordChar(h[p])) THEN p ELSE NoMatch

\* $ (no re.MULTILINE): end of string, or just before a final newline
AtEnd(h, p) ==
    /\ p # NoMatch
    /\ \/ p = Len(h) + 1
       \/ p = Len(h) /\ h[p] = "\n"

\* (100|[1-9][0-9]?) : "100" is tried first, then one or two digits
QNum100(h, p) ==
    IF Lit(h, p, <<"1","0","0">>) # NoMatch THEN Lit(h, p, <<"1","0","0">>)
    ELSE IF OneOf(h, p, {"1","2","3","4","5","6","7","8","9"}) = NoMatch THEN NoMatch
    ELSE IF OneOf(h, p + 1, {"0","1","2","3","4","5","6","7","8","9"}) # NoMatch
         THEN p + 2
         ELSE p + 1

\* ([1-9][0-9]?)
QNum99(h, p) ==
    IF OneOf(h, p, {"1","2","3","4","5","6","7","8","9"}) = NoMatch THEN NoMatch
    ELSE IF OneOf(h, p + 1, {"0","1","2","3","4","5","6","7","8","9"}) # NoMatch
         THEN p + 2
         ELSE p + 1

\* (1[3-8])
Topic13to18(h, p) == OneOf(h, Lit(h, p, <<"1">>), {"3","4","5","6","7","8"})

\* ([1-9]|1[0-8]) followed by Q: the one-digit alternative is tried first and
\* is kept when the next character is a Q; otherwise the pattern backtracks
\* to the two-digit alternative
Topic1to18(h, p) ==
    IF Lit(h, OneOf(h, p, {"1","2","3","4","5","6","7","8","9"}), <<"Q">>) # NoMatch
    THEN p + 1
    ELSE OneOf(h, Lit(h, p, <<"1">>), {"0","1","2","3","4","5","6","7","8"})

Group(h, from, to) == SubSeq(h, from, to - 1)

----------------------------------------------------------------------------
(* The header patterns.  A match is [matched, g1, g2, g3, g4]: whether the  *)
(* pattern matched and the text of its groups.                             *)

NoGroups == [matched |-> FALSE, g1 |-> <<>>, g2 |-> <<>>, g3 |-> <<>>, g4 |-> <<>>]

cLevel    == <<"L","e","v","e","l">>
cLG       == <<"L",".","G",".">>
cSolution == <<"S","o","l","u","t","i","o","n">>
cChallenge == <<"c","h","a","l","l","e","n","g","e">>

\* parsing.py QUESTION_HEADER_RE.search(header)
\*   ^T(1[3-8])Q(100|[1-9][0-9]?)\s*:\s*Level\s*([1-4])\s*\(L\.G\.\s*([^)]+)\)\s*$
\* \s*([^)]+) : the group takes the run up to ")" less the leading white
\* space, and one white-space character when the run is white space only.
QUESTION_HEADER_RE(h) ==
    LET t0 == Lit(h, 1, <<"T">>)
        t1 == Topic13to18(h, t0)
        q0 == Lit(h, t1, <<"Q">>)
        q1 == QNum100(h, q0)
        l0 == Lit(h, SkipSpace(h, Lit(h, SkipSpace(h, q1), <<":">>)), cLevel)
        l1 == SkipSpace(h, l0)
        l2 == OneOf(h, l1, {"1","2","3","4"})
        g0 == Lit(h, Lit(h, SkipSpace(h, l2), <<"(">>), cLG)
        g2 == NotParenRun(h, g0)
        g1 == IF SkipSpace(h, g0) < g2 THEN SkipSpace(h, g0) ELSE g2 - 1
        e  == SkipSpace(h, Lit(h, g2, <<")">>))
    IN  IF g0 # NoMatch /\ g2 > g0 /\ AtEnd(h, e)
        THEN [matched |-> TRUE, g1 |-> Group(h, t0, t1), g2 |-> Group(h, q0, q1),
              g3 |-> Group(h, l1, l2), g4 |-> Group(h, g1, g2)]
        ELSE NoGroups

\* parsing.py SOLUTION_HEADER_RE.search(header)
\*   ^T(1[3-8])Q(100|[1-9][0-9]?)\s*:\s*Solution\b
SOLUTION_HEADER_RE(h) ==
    LET t0 == Lit(h, 1, <<"T">>)
        t1 == Topic13to18(h, t0)
        q0 == Lit(h, t1, <<"Q">>)
        q1 == QNum100(h, q0)
        s  == Lit(h, SkipSpace(h, Lit(h, SkipSpace(h, q1), <<":">>)), cSolution)
    IN  IF WordEnd(h, s) # NoMatch
        THEN [matched |-> TRUE, g1 |-> Group(h, t0, t1), g2 |-> Group(h, q0, q1),
              g3 |-> <<>>, g4 |-> <<>>]
        ELSE NoGroups

\* parsing.py CHALLENGE_HEADER_RE.search(header):  \b8\s*pt\s*challenge\b
\* found at any position p of the header
ChallengeAt(h, p) ==
    /\ p = 1 \/ ~IsWordChar(h[p - 1])
    /\ WordEnd(h, Lit(h, SkipSpace(h, Lit(h, SkipSpace(h, Lit(h, p, <<"8">>)),
                                          <<"p","t">>)), cChallenge)) # NoMatch
CHALLENGE_HEADER_RE(h) == \E p \in 1..Len(h) : ChallengeAt(h, p)

\* parsing.py CHALLENGE_SOLUTION_HEADER_RE.search(header):  ^Q0\s*:\s*Solution\b
CHALLENGE_SOLUTION_HEADER_RE(h) ==
    WordEnd(h, Lit(h, SkipSpace(h, Lit(h, SkipSpace(h, Lit(h, 1, <<"Q","0">>)),
                                       <<":">>)), cSolution)) # NoMatch

\* regexes.py QUESTION_HEADER_RE.match(header)
\*   ^T([1-9]|1[0-8])Q([1-9][0-9]?)\s*:\s*Level\s*([1-4])\+?\s*\(L\.G\.\s*(\d+)\)\s*$
RegexesQUESTION_HEADER_RE(h) ==
    LET t0 == Lit(h, 1, <<"T">>)
        t1 == Topic1to18(h, t0)
        q0 == Lit(h, t1, <<"Q">>)
        q1 == QNum99(h, q0)
        l0 == Lit(h, SkipSpace(h, Lit(h, SkipSpace(h, q1), <<":">>)), cLevel)
        l1 == SkipSpace(h, l0)
        l2 == OneOf(h, l1, {"1","2","3","4"})
        l3 == IF Lit(h, l2, <<"+">>) # NoMatch THEN Lit(h, l2, <<"+">>) ELSE l2
        g1 == SkipSpace(h, Lit(h, Lit(h, SkipSpace(h, l3), <<"(">>), cLG))
        g2 == Digits1(h, g1)
        e  == SkipSpace(h, Lit(h, g2, <<")">>))
    IN  IF AtEnd(h, e)
        THEN [matched |-> TRUE, g1 |-> Group(h, t0, t1), g2 |-> Group(h, q0, q1),
              g3 |-> Group(h, l1, l2), g4 |-> Group(h, g1, g2)]
        ELSE NoGroups

\* re.split(r"[,&/]", s): the pieces between the separators, empty ones too
RECURSIVE ReSplit(_, _)
ReSplit(s, piece) ==
    IF s = <<>> THEN <<piece>>
    ELSE IF Head(s) \in {",", "&", "/"} THEN <<piece>> \o ReSplit(Tail(s), <<>>)
    ELSE ReSplit(Tail(s), Append(piece, Head(s)))

\* [p.strip() for p in re.split(r"[,&/]", raw_lg) if p.strip()]
SplitGoals(raw_lg) ==
    LET parts == ReSplit(raw_lg, <<>>)
        kept  == SelectSeq(parts, LAMBDA x : Strip(x) # <<>>)
    IN  [i \in 1..Len(kept) |-> Strip(kept[i])]

\* What the extractor reads off a question-header match (parsing.py 81-86)
NotClassified == [matched |-> FALSE, topic |-> 0, qnum |-> 0, level |-> 0,
                  learning_goals |-> <<>>]
ClassifyQuestion(m) ==
    IF m.matched
    THEN [matched |-> TRUE, topic |-> ToInt(m.g1), qnum |-> ToInt(m.g2),
          level |-> ToInt(m.g3), learning_goals |-> SplitGoals(Strip(m.g4))]
    ELSE NotClassified

----------------------------------------------------------------------------
(* Header lines written after the grammar of the question header           *)
(*    T<topic>Q<num>: Level <1-4>(+)? (L.G. <codes>)                       *)

\* the decimal digits of n >= 0
RECURSIVE Dec(_)
Dec(n) == IF n < 10 THEN <<DigitChars[n + 1]>>
          ELSE Dec(n \div 10) \o <<DigitChars[(n % 10) + 1]>>

RECURSIVE JoinWith(_, _)
JoinWith(parts, sep) ==
    IF parts = <<>> THEN <<>>
    ELSE IF Len(parts) = 1 THEN parts[1]
    ELSE parts[1] \o sep \o JoinWith(Tail(parts), sep)

\* topics and question numbers inside the ranges of both patterns
GrammarTopics == {13, 18}
GrammarQNums  == {1, 7, 99}
GrammarLevels == {1, 2, 3, 4}
GrammarPlus   == {<<>>, <<"+">>}
GrammarGoals  == {<< <<"1","1">> >>,
                  << <<"1">>, <<"2">> >>,
                  << <<"4">>, <<"1","1">>, <<"4">> >>}
GrammarSeps   == {<<",", " ">>, <<" ", "&", " ">>, <<"/">>}

GrammarParams ==
    [topic : GrammarTopics, qnum : GrammarQNums, level : GrammarLevels,
     plus : GrammarPlus, goals : GrammarGoals, sep : GrammarSeps]

HeaderOf(g) ==
    <<"T">> \o Dec(g.topic) \o <<"Q">> \o Dec(g.qnum) \o <<":", " ">>
    \o cLevel \o <<" ">> \o Dec(g.level) \o g.plus \o <<" ", "(">>
    \o cLG \o <<" ">> \o JoinWith(g.goals, g.sep) \o <<")">>

\* what the claim expects the classifier to read off HeaderOf(g)
Expected(g) ==
    [matched |-> TRUE, topic |-> g.topic, qnum |-> g.qnum, level |-> g.level,
     learning_goals |-> g.goals]

\* the example header of the specification and of tests/test_regex.py
ExampleHeader ==
    <<"T","1","3","Q","7",":"," ","L","e","v","e","l"," ","3","+"," ",
      "(","L",".","G","."," ","1","1",")">>

\* further header lines, outside the grammar or at its edges
OtherHeaders ==
    { <<"T","1","3","Q","1","0","0",":"," ","L","e","v","e","l"," ","2"," ",
        "(","L",".","G","."," ","3",")">>,
      <<"t","1","4","q","2"," ",":","l","e","v","e","l","1","(","l",".","g",".","5",")"," ">>,
      <<"T","2","Q","5",":"," ","L","e","v","e","l"," ","1"," ","(","L",".","G","."," ","2",")">>,
      <<"T","1","3","Q","7",":"," ","L","e","v","e","l"," ","5"," ","(","L",".","G","."," ","2",")">>,
      <<"T","1","3","Q","7",":"," ","L","e","v","e","l"," ","3"," ","(","L",".","G","."," "," ",")">>,
      <<"T","1","3","Q","7",":"," ","L","e","v","e","l"," ","3"," ","(","L",".","G","."," ",",","2",")">>,
      <<"T","1","3","Q","7",":"," ","S","o","l","u","t","i","o","n">>,
      <<"I","n","t","r","o">>,
      <<>> }

HeaderInputs == {HeaderOf(g) : g \in GrammarParams} \cup OtherHeaders

----------------------------------------------------------------------------
(* SpecHeader: one header line is classified by the pattern the extractor  *)
(* uses (parsing.py) and by the pattern of regexes.py.                     *)

IdleParse == /\ pages = <<>> /\ page_index = 1 /\ current_topic = None
IdleBank  == /\ entries = <<>> /\ entry_index = 1 /\ bank = <<>>
IdleStore == /\ file = None /\ loaded = None
IdleSelect == /\ sel_args = None /\ result = None
IdleSample == /\ used_ids = {} /\ sample = None
IdleAlloc == /\ counts = <<>> /\ allocation = <<>> /\ remaining = 0
             /\ topic_index = 1 /\ made_progress = FALSE
NoOutput == [q |-> None, s |-> None, qa |-> None]
NoOutcome == [call |-> "", result |-> ""]
IdlePdf == /\ src_pages = 0 /\ output = NoOutput /\ outcome = NoOutcome
IdleSession == builds = <<>>
IdleUsage == /\ page_usage = None /\ duplicates = None
IdleApp == IdleSample /\ IdleAlloc /\ IdlePdf /\ IdleSession /\ IdleUsage
IdleCaller == /\ questions = <<>> /\ IdleStore /\ IdleSelect /\ IdleApp

InitHeader ==
    /\ header \in HeaderInputs
    /\ m_parsing = None
    /\ m_regexes = None
    /\ IdleParse /\ IdleBank /\ IdleCaller
    /\ pc = "idle"

\* parsing.py 79-86: q_match = QUESTION_HEADER_RE.search(header) and the
\* values read off the match
MatchParsing ==
    /\ pc = "idle"
    /\ m_parsing = None
    /\ m_parsing' = Some(ClassifyQuestion(QUESTION_HEADER_RE(header)))
    /\ UNCHANGED <<header, m_regexes, parseVars, bankVars, pc, callerVars>>

\* tests/test_regex.py 28-35: m = QUESTION_HEADER_RE.match(header) with the
\* pattern of regexes.py, read the same way
MatchRegexes ==
    /\ pc = "idle"
    /\ m_regexes = None
    /\ m_regexes' = Some(ClassifyQuestion(RegexesQUESTION_HEADER_RE(header)))
    /\ UNCHANGED <<header, m_parsing, parseVars, bankVars, pc, callerVars>>

NextHeader == MatchParsing \/ MatchRegexes

SpecHeader == InitHeader /\ [][NextHeader]_vars

----------------------------------------------------------------------------
(* parse_pdf_to_entries (parsing.py 64-141).  A page is the list of lines  *)
(* of its extracted text, (page.extract_text() or "").splitlines().        *)

\* an entry; the keys "level" and "learning_goals" exist on question entries
\* only and are read with e.get(...), which gives None where they are absent
Entry(kind, topic, qnum, level, goals, text, page) ==
    [kind |-> kind, topic |-> topic, qnum |-> qnum, level |-> level,
     learning_goals |-> goals, text |-> text, page |-> page]

HeaderLine(lines) == Strip(lines[1])                           \* line 75
BodyText(lines)   == Strip(JoinWith(Tail(lines), <<"\n">>))  \* line 76

\* lines 122 and 134: "topic": current_topic, the int or None as it stands
Unwrap(o) == IF IsNone(o) THEN None ELSE Get(o)

\* a plausible slip: the test "current_topic is not None" is left out
ChallengeGuard_NoTopic(matched, topic) == matched

\* lines 117-119 and 129-131: a challenge header counts only when a topic is
\* current
ChallengeGuard(matched, topic) == matched /\ ~IsNone(topic)

\* a plausible slip: the challenge entry does not inherit the current topic
ChallengeEntry_NoInherit(kind, topic, body, i) ==
    Entry(kind, 0, 0, None, None, body, i)

\* a plausible slip: the challenge entry is numbered like a regular question
ChallengeEntry_Numbered(kind, topic, body, i) ==
    Entry(kind, Unwrap(topic), 7, None, None, body, i)

\* lines 120-126 and 132-138: the entry of a challenge page
ChallengeEntry(kind, topic, body, i) ==
    Entry(kind, Unwrap(topic), 0, None, None, body, i)

\* One iteration of the page loop (lines 69-139): the entries and the
\* current topic after the page with index i and lines `lines`
ParseOne(lines, i, es, topic) ==
    IF lines = <<>> THEN [entries |-> es, current_topic |-> topic]
    ELSE
    LET h == HeaderLine(lines)
        body == BodyText(lines)
        q == ClassifyQuestion(QUESTION_HEADER_RE(h))
        m == SOLUTION_HEADER_RE(h)
    IN  IF q.matched THEN
            [entries |-> Append(es, Entry("question", q.topic, q.qnum, Some(q.level),
                                          Some(q.learning_goals), body, i)),
             current_topic |-> Some(q.topic)]
        ELSE IF m.matched THEN
            [entries |-> Append(es, Entry("solution", ToInt(m.g1), ToInt(m.g2),
                                          None, None, body, i)),
             current_topic |-> Some(ToInt(m.g1))]
        ELSE IF ChallengeGuard(CHALLENGE_HEADER_RE(h), topic) THEN
            [entries |-> Append(es, ChallengeEntry("challenge_q", topic, body, i)),
             current_topic |-> topic]
        ELSE IF ChallengeGuard(CHALLENGE_SOLUTION_HEADER_RE(h), topic) THEN
            [entries |-> Append(es, ChallengeEntry("challenge_sol", topic, body, i)),
             current_topic |-> topic]
        ELSE [entries |-> es, current_topic |-> topic]

ParsePage ==
    /\ pc = "parse"
    /\ page_index <= Len(pages)
    /\ LET r == ParseOne(pages[page_index], page_index, entries, current_topic)
       IN  /\ entries' = r.entries
           /\ current_topic' = r.current_topic
    /\ page_index' = page_index + 1
    /\ UNCHANGED <<headerVars, pages, entry_index, bank, pc, callerVars>>

\* line 141: return entries; the caller hands them to build_question_bank
ParseReturn ==
    /\ pc = "parse"
    /\ page_index > Len(pages)
    /\ pc' = "build"
    /\ UNCHANGED <<headerVars, parseVars, bankVars, callerVars>>

----------------------------------------------------------------------------
(* build_question_bank (parsing.py 143-182).  The dict `bank` is the       *)
(* sequence of its items [key, value] in insertion order.                  *)

Question(topic, qnum, is_challenge, question_text) ==          \* models.py 4-15
    [topic |-> topic, qnum |-> qnum, is_challenge |-> is_challenge,
     question_text |-> question_text, solution_text |-> None,
     question_page |-> None, solution_page |-> None,
     level |-> None, learning_goals |-> None]

ChallengeKinds == {"challenge_q", "challenge_sol"}

\* a plausible slip: the kind of the entry is made part of the key
KeyOf_WithKind(e) == <<e.topic, e.qnum, e.kind>>

KeyOf(e) == <<e.topic, e.qnum>>                                \* line 147

HasKey(b, key) == \E i \in 1..Len(b) : b[i].key = key
IndexOf(b, key) == CHOOSE i \in 1..Len(b) : b[i].key = key

\* a plausible slip: the flag is assigned from the kind of every entry
MarkChallenge_Assign(q, kind) == [q EXCEPT !.is_challenge = kind \in ChallengeKinds]

\* lines 160-162
MarkChallenge(q, kind) ==
    IF kind \in ChallengeKinds THEN [q EXCEPT !.is_challenge = TRUE] ELSE q

\* a plausible slip: a question entry starts the record afresh
ApplyKind_Afresh(q, e) ==
    IF e.kind = "question" THEN
        [q EXCEPT !.question_text = e.text, !.question_page = Some(e.page),
                  !.level = e.level, !.learning_goals = e.learning_goals,
                  !.solution_text = None, !.solution_page = None]
    ELSE IF e.kind \in {"solution", "challenge_sol"} THEN
        [q EXCEPT !.solution_text = Some(e.text), !.solution_page = Some(e.page)]
    ELSE IF e.kind = "challenge_q" THEN
        [q EXCEPT !.question_text = e.text, !.question_page = Some(e.page),
                  !.solution_text = None, !.solution_page = None]
    ELSE q

\* a plausible slip: a page of a record is written only while it is unset,
\* so the first entry of a half wins
ApplyKind_KeepFirst(q, e) ==
    IF e.kind \in {"question", "challenge_q"} /\ ~IsNone(q.question_page) THEN q
    ELSE IF e.kind \in {"solution", "challenge_sol"} /\ ~IsNone(q.solution_page) THEN q
    ELSE IF e.kind = "question" THEN
        [q EXCEPT !.question_text = e.text, !.question_page = Some(e.page),
                  !.level = e.level, !.learning_goals = e.learning_goals]
    ELSE IF e.kind = "challenge_q" THEN
        [q EXCEPT !.question_text = e.text, !.question_page = Some(e.page)]
    ELSE [q EXCEPT !.solution_text = Some(e.text), !.solution_page = Some(e.page)]

\* lines 164-180
ApplyKind(q, e) ==
    IF e.kind = "question" THEN
        [q EXCEPT !.question_text = e.text, !.question_page = Some(e.page),
                  !.level = e.level, !.learning_goals = e.learning_goals]
    ELSE IF e.kind = "solution" THEN
        [q EXCEPT !.solution_text = Some(e.text), !.solution_page = Some(e.page)]
    ELSE IF e.kind = "challenge_q" THEN
        [q EXCEPT !.question_text = e.text, !.question_page = Some(e.page)]
    ELSE IF e.kind = "challenge_sol" THEN
        [q EXCEPT !.solution_text = Some(e.text), !.solution_page = Some(e.page)]
    ELSE q

\* one iteration of the loop over the entries (lines 146-180)
BuildEntry(b, e) ==
    LET key == KeyOf(e)
        b1 == IF HasKey(b, key) THEN b
              ELSE Append(b, [key |-> key,
                              value |-> Question(e.topic, e.qnum,
                                                 e.kind \in ChallengeKinds, <<>>)])
        i == IndexOf(b1, key)
    IN  [b1 EXCEPT ![i].value = ApplyKind(MarkChallenge(b1[i].value, e.kind), e)]

\* line 182: list(bank.values())
Values(b) == [i \in 1..Len(b) |-> b[i].value]

\* build_question_bank as a function of the entry list
RECURSIVE BuildFrom(_, _)
BuildFrom(b, es) == IF es = <<>> THEN b ELSE BuildFrom(BuildEntry(b, Head(es)), Tail(es))
build_question_bank(es) == Values(BuildFrom(<<>>, es))

BuildStep ==
    /\ pc = "build"
    /\ entry_index <= Len(entries)
    /\ bank' = BuildEntry(bank, entries[entry_index])
    /\ entry_index' = entry_index + 1
    /\ UNCHANGED <<headerVars, parseVars, entries, pc, callerVars>>

BuildReturn ==
    /\ pc = "build"
    /\ entry_index > Len(entries)
    /\ pc' = "done"
    /\ UNCHANGED <<headerVars, parseVars, bankVars, callerVars>>

IdleHeader == /\ header = <<>> /\ m_parsing = None /\ m_regexes = None

----------------------------------------------------------------------------
(* Spec: a source document is read page by page by parse_pdf_to_entries    *)
(* and its entries are folded into the bank by build_question_bank.        *)

QuestionPlusPage == <<ExampleHeader, <<"a">>>>
QuestionPage     == <<<<"T","1","3","Q","7",":"," ","L","e","v","e","l"," ","3"," ","(","L",".","G","."," ","1","1",")">>, <<"b">>>>
SolutionPage     == <<<<"T","1","3","Q","7",":"," ","S","o","l","u","t","i","o","n">>, <<"c">>>>
Question14Page   == <<<<"T","1","4","Q","2",":"," ","L","e","v","e","l"," ","1"," ","(","L",".","G","."," ","1",","," ","2",")">>, <<"d">>, <<"e">>>>
Solution14Page   == <<<<"t","1","4","q","2"," ",":"," ","s","o","l","u","t","i","o","n"," ">>>>
ChallengePage    == <<<<"B","o","n","u","s",":"," ","8"," ","p","t"," ","C","h","a","l","l","e","n","g","e">>, <<"f">>>>
ChallengeSolPage == <<<<"Q","0",":"," ","S","o","l","u","t","i","o","n">>, <<"g">>>>
SolutionWithMarkerPage == <<<<"T","1","3","Q","8",":"," ","S","o","l","u","t","i","o","n"," ","t","o"," ","t","h","e"," ","8"," ","p","t"," ","c","h","a","l","l","e","n","g","e">>, <<"h">>>>
IntroPage        == <<<<"I","n","t","r","o">>>>
EmptyPage        == <<>>

PageSet == {QuestionPlusPage, QuestionPage, SolutionPage, Question14Page,
            Solution14Page, ChallengePage, ChallengeSolPage,
            SolutionWithMarkerPage, IntroPage, EmptyPage}

MaxPages == 3

Documents == UNION {[1..n -> PageSet] : n \in 0..MaxPages}

Init ==
    /\ IdleHeader
    /\ pages \in Documents
    /\ page_index = 1
    /\ current_topic = None
    /\ IdleBank
    /\ IdleCaller
    /\ pc = "parse"

Next == ParsePage \/ ParseReturn \/ BuildStep \/ BuildReturn

Spec == Init /\ [][Next]_vars

----------------------------------------------------------------------------
(* SpecBank: build_question_bank on an arbitrary list of entries.          *)

EntryTopics == {13, 14}
EntryQNums  == {0, 7}
EntryPages  == {1, 2}
EntryKinds  == {"question", "solution", "challenge_q", "challenge_sol"}

\* the body text of an entry goes with its page
TextOfPage(page) == <<DigitChars[page + 1]>>

EntrySet ==
    {Entry(k, t, n,
           IF k = "question" THEN Some(3) ELSE None,
           IF k = "question" THEN Some(<< <<"1","1">> >>) ELSE None,
           TextOfPage(pg), pg) :
        k \in EntryKinds, t \in EntryTopics, n \in EntryQNums, pg \in EntryPages}

MaxEntries == 2

EntryLists == UNION {[1..n -> EntrySet] : n \in 0..MaxEntries}

InitBank ==
    /\ IdleHeader
    /\ IdleParse
    /\ entries \in EntryLists
    /\ entry_index = 1
    /\ bank = <<>>
    /\ IdleCaller
    /\ pc = "build"

NextBank == BuildStep \/ BuildReturn

SpecBank == InitBank /\ [][NextBank]_vars

----------------------------------------------------------------------------
(* save_question_bank_json / load_question_bank_json (parsing.py 185-194). *)
(* A JSON value is <<"null">>, <<"number", n>>, <<"bool", b>>,              *)
(* <<"string", s>> or <<"array", values>>; a JSON object is the sequence   *)
(* of its members [name, value] in the order they were written.            *)

JNull == <<"null">>
JNumber(n) == <<"number", n>>
JBool(b) == <<"bool", b>>
JString(str) == <<"string", str>>
JArray(xs) == <<"array", xs>>

JStringList(xs) == JArray([i \in 1..Len(xs) |-> JString(xs[i])])

\* json.dump of a value of the Python type named: "int", "str" or "list"
JValue(v, type) ==
    IF type = "int" THEN JNumber(v)
    ELSE IF type = "str" THEN JString(v)
    ELSE JStringList(v)

\* a plausible slip: an absent value is written as an empty string
JOptional_Sentinel(o, type) == IF IsNone(o) THEN JString(<<>>) ELSE JValue(Get(o), type)

\* json.dump of an Optional value: None is written as null
JOptional(o, type) == IF IsNone(o) THEN JNull ELSE JValue(Get(o), type)

\* asdict(q) then json.dump: the members in the order of the dataclass fields
DumpQuestion(q) ==
    << [name |-> "topic",          value |-> JNumber(q.topic)],
       [name |-> "qnum",           value |-> JNumber(q.qnum)],
       [name |-> "is_challenge",   value |-> JBool(q.is_challenge)],
       [name |-> "question_text",  value |-> JString(q.question_text)],
       [name |-> "solution_text",  value |-> JOptional(q.solution_text, "str")],
       [name |-> "question_page",  value |-> JOptional(q.question_page, "int")],
       [name |-> "solution_page",  value |-> JOptional(q.solution_page, "int")],
       [name |-> "level",          value |-> JOptional(q.level, "int")],
       [name |-> "learning_goals", value |-> JOptional(q.learning_goals, "list")] >>

\* lines 186-188
DumpBank(qs) == [i \in 1..Len(qs) |-> DumpQuestion(qs[i])]

\* json.load: the Python value of a JSON value that is not null
PyValue(j) ==
    IF j[1] = "array" THEN [i \in 1..Len(j[2]) |-> j[2][i][2]] ELSE j[2]

\* the Optional read from a JSON value: null gives None
PyOptional(j) == IF j = JNull THEN None ELSE Some(PyValue(j))

HasMember(obj, name) == \E i \in 1..Len(obj) : obj[i].name = name
Member(obj, name) == obj[CHOOSE i \in 1..Len(obj) : obj[i].name = name].value

\* a keyword argument of Question(**q) that has the default None
OptionalArg(obj, name) ==
    IF HasMember(obj, name) THEN PyOptional(Member(obj, name)) ELSE None

\* Question(**q) (line 194)
LoadQuestion(obj) ==
    [topic          |-> PyValue(Member(obj, "topic")),
     qnum           |-> PyValue(Member(obj, "qnum")),
     is_challenge   |-> PyValue(Member(obj, "is_challenge")),
     question_text  |-> PyValue(Member(obj, "question_text")),
     solution_text  |-> OptionalArg(obj, "solution_text"),
     question_page  |-> OptionalArg(obj, "question_page"),
     solution_page  |-> OptionalArg(obj, "solution_page"),
     level          |-> OptionalArg(obj, "level"),
     learning_goals |-> OptionalArg(obj, "learning_goals")]

\* lines 192-194
LoadBank(doc) == [i \in 1..Len(doc) |-> LoadQuestion(doc[i])]

\* save_question_bank_json(questions, path)
Save ==
    /\ pc = "store"
    /\ file' = Some(DumpBank(questions))
    /\ UNCHANGED <<headerVars, parseVars, bankVars, pc, questions, loaded, selectVars, appVars>>

\* load_question_bank_json(path), the file being there
Load ==
    /\ pc = "store"
    /\ ~IsNone(file)
    /\ loaded' = Some(LoadBank(Get(file)))
    /\ UNCHANGED <<headerVars, parseVars, bankVars, pc, questions, file, selectVars, appVars>>

\* the records handed to the store: every field takes every kind of value
StoredRecords ==
    [topic : {13}, qnum : {7}, is_challenge : BOOLEAN,
     question_text : {<<"q">>},
     solution_text : {None, Some(<<>>)},
     question_page : {None, Some(1)},
     solution_page : {None, Some(2)},
     level : {None, Some(3)},
     learning_goals : {None, Some(<<>>), Some(<< <<"1","1">>, <<"4">> >>)}]

MaxStored == 1

StoredLists == UNION {[1..n -> StoredRecords] : n \in 0..MaxStored}

InitStore ==
    /\ IdleHeader /\ IdleParse /\ IdleBank
    /\ questions \in StoredLists
    /\ IdleStore
    /\ IdleSelect
    /\ IdleApp
    /\ pc = "store"

NextStore == Save \/ Load

SpecStore == InitStore /\ [][NextStore]_vars

----------------------------------------------------------------------------
(* The bank the application works on (app.py 50-60 and 322-324): on the    *)
(* first run the source document is parsed, the bank is built and saved,   *)
(* and the saved file is loaded.                                           *)

\* the page loop of parse_pdf_to_entries from page i on (parsing.py 69-141)
RECURSIVE ParseFrom(_, _, _, _)
ParseFrom(pgs, i, es, topic) ==
    IF i > Len(pgs) THEN es
    ELSE LET r == ParseOne(pgs[i], i, es, topic)
         IN  ParseFrom(pgs, i + 1, r.entries, r.current_topic)

parse_pdf_to_entries(pgs) == ParseFrom(pgs, 1, <<>>, None)

\* ensure_question_bank() with no bank file yet, then load_question_bank_json
PipelineBank(pgs) ==
    LoadBank(DumpBank(build_question_bank(parse_pdf_to_entries(pgs))))

MaxPipelinePages == 2

PipelineDocuments == UNION {[1..n -> PageSet] : n \in 0..MaxPipelinePages}

PipelineBanks == {PipelineBank(pgs) : pgs \in PipelineDocuments}

----------------------------------------------------------------------------
(* select_questions (pdf_utils.py 143-206).  The arguments are a record;   *)
(* topics, levels and learning_goals are Optional lists.                   *)

ListHas(xs, x) == \E i \in 1..Len(xs) : xs[i] = x       \* x in xs

\* lines 170-172
DropChallenge(q, a) == q.is_challenge /\ ~a.include_challenges

\* a plausible slip (the earlier variant of the function): the topic filter
\* is applied to non-challenge records only
DropTopic_NonChallenge(q, a) ==
    /\ ~IsNone(a.topics)
    /\ ~q.is_challenge
    /\ ~ListHas(Get(a.topics), q.topic)

\* lines 174-176
DropTopic(q, a) == ~IsNone(a.topics) /\ ~ListHas(Get(a.topics), q.topic)

\* a plausible slip: the level filter is applied to challenge records too
DropLevel_All(q, a) ==
    /\ ~IsNone(a.levels)
    /\ IsNone(q.level) \/ ~ListHas(Get(a.levels), Get(q.level))

\* lines 178-182
DropLevel(q, a) ==
    /\ ~IsNone(a.levels)
    /\ ~q.is_challenge
    /\ IsNone(q.level) \/ ~ListHas(Get(a.levels), Get(q.level))

\* a plausible slip (the earlier variant of the function): the goal filter
\* is applied to non-challenge records only
DropGoals_NonChallenge(q, a) ==
    /\ ~IsNone(a.learning_goals)
    /\ ~q.is_challenge
    /\ LET q_lgs == IF IsNone(q.learning_goals) THEN <<>> ELSE Get(q.learning_goals)
       IN  ~\E i \in 1..Len(Get(a.learning_goals)) :
                ListHas(q_lgs, Get(a.learning_goals)[i])

\* lines 184-188: q_lgs = q.learning_goals or []
DropGoals(q, a) ==
    /\ ~IsNone(a.learning_goals)
    /\ LET q_lgs == IF IsNone(q.learning_goals) THEN <<>> ELSE Get(q.learning_goals)
       IN  ~\E i \in 1..Len(Get(a.learning_goals)) :
                ListHas(q_lgs, Get(a.learning_goals)[i])

\* lines 190-195
DropPages(q, a) ==
    \/ a.require_question_page /\ IsNone(q.question_page)
    \/ a.require_solution_page /\ IsNone(q.solution_page)

\* the record reaches result.append(q) (line 197)
Kept(q, a) ==
    /\ ~DropChallenge(q, a)
    /\ ~DropTopic(q, a)
    /\ ~DropLevel(q, a)
    /\ ~DropGoals(q, a)
    /\ ~DropPages(q, a)

\* a plausible slip: the challenge flag comes first in the key, which puts
\* every challenge after every non-challenge
sort_key_ChallengeFirst(qq) == <<IF qq.is_challenge THEN 1 ELSE 0, qq.topic, qq.qnum>>

\* lines 200-203; the topic of a Question is an int, so topic_sort is the topic
sort_key(qq) == <<qq.topic, IF qq.is_challenge THEN 1 ELSE 0, qq.qnum>>

\* the order of Python tuples of three ints
TupleLess(x, y) ==
    \/ x[1] < y[1]
    \/ x[1] = y[1] /\ x[2] < y[2]
    \/ x[1] = y[1] /\ x[2] = y[2] /\ x[3] < y[3]

\* list.sort(key=sort_key) is stable: a record goes after the records already
\* placed whose key is not greater
RECURSIVE InsertByKey(_, _)
InsertByKey(sorted, q) ==
    IF sorted = <<>> THEN <<q>>
    ELSE IF TupleLess(sort_key(q), sort_key(Head(sorted)))
         THEN <<q>> \o sorted
         ELSE <<Head(sorted)>> \o InsertByKey(Tail(sorted), q)

RECURSIVE SortByKey(_, _)
SortByKey(done, rest) ==
    IF rest = <<>> THEN done ELSE SortByKey(InsertByKey(done, Head(rest)), Tail(rest))

select_questions(qs, a) ==
    SortByKey(<<>>, SelectSeq(qs, LAMBDA q : Kept(q, a)))

\* one call of select_questions on the caller's bank
SelectQuestions ==
    /\ pc = "select"
    /\ IsNone(result)
    /\ \E a \in [topics : {None, Some(<<13>>)},
                 include_challenges : BOOLEAN,
                 levels : {None, Some(<<3>>), Some(<<1, 3>>)},
                 learning_goals : {None, Some(<< <<"1","1">> >>)},
                 require_question_page : BOOLEAN,
                 require_solution_page : BOOLEAN] :
          /\ sel_args' = Some(a)
          /\ result' = Some(select_questions(questions, a))
    /\ UNCHANGED <<headerVars, parseVars, bankVars, pc, questions, storeVars, appVars>>

Record(topic, qnum, is_challenge, level, goals, question_page, solution_page) ==
    [topic |-> topic, qnum |-> qnum, is_challenge |-> is_challenge,
     question_text |-> <<"q">>, solution_text |-> None,
     question_page |-> question_page, solution_page |-> solution_page,
     level |-> level, learning_goals |-> goals]

\* the records of the banks handed to select_questions
BankRecords ==
    { Record(13, 7, FALSE, Some(3), Some(<< <<"1","1">> >>), Some(1), Some(2)),
      Record(13, 2, FALSE, Some(1), Some(<< <<"4">>, <<"1","1">> >>), Some(3), Some(4)),
      Record(13, 9, FALSE, Some(2), Some(<< <<"4">> >>), Some(5), None),
      Record(13, 4, FALSE, None, None, None, None),
      Record(13, 0, TRUE, None, None, Some(6), Some(7)),
      Record(13, 0, TRUE, Some(2), Some(<< <<"1","1">> >>), Some(6), Some(7)),
      Record(14, 0, TRUE, None, None, Some(8), Some(9)),
      Record(14, 1, FALSE, Some(3), Some(<< <<"1","1">> >>), Some(10), Some(11)),
      Record(14, 3, FALSE, None, Some(<<>>), Some(12), Some(13)),
      Record(14, 0, TRUE, Some(3), None, None, Some(9)) }

MaxBank == 2

Banks == UNION {[1..n -> BankRecords] : n \in 0..MaxBank}

\* the bank is any short list of records, or a bank built from a document
InitSelect ==
    /\ IdleHeader /\ IdleParse /\ IdleBank
    /\ questions \in Banks \cup PipelineBanks
    /\ IdleStore
    /\ IdleSelect
    /\ IdleApp
    /\ pc = "select"

NextSelect == SelectQuestions

SpecSelect == InitSelect /\ [][NextSelect]_vars

----------------------------------------------------------------------------
(* sample_questions_even_by_topic (app.py 233-308).                        *)

\* app.py 32-34: f"T{q.topic}-Q{q.qnum}-C{int(bool(q.is_challenge))}"
question_id(q) ==
    <<"T">> \o Dec(q.topic) \o <<"-", "Q">> \o Dec(q.qnum)
            \o <<"-", "C">> \o Dec(IF q.is_challenge THEN 1 ELSE 0)

\* a plausible slip: the used-set is not consulted
IsCandidate_IgnoreUsed(q, used, avoid_used) == ~IsNone(q.question_page)

\* lines 253-254, the condition of the comprehension
IsCandidate(q, used, avoid_used) ==
    /\ ~IsNone(q.question_page)
    /\ ~avoid_used \/ question_id(q) \notin used

\* lines 250-255
Candidates(qs, used, avoid_used) ==
    SelectSeq(qs, LAMBDA q : IsCandidate(q, used, avoid_used))

\* line 269: sorted(by_topic.keys()), the topics of the candidates ascending
RECURSIVE Sorted(_)
Sorted(S) ==
    IF S = {} THEN <<>>
    ELSE LET least == CHOOSE x \in S : \A y \in S : x <= y
         IN  <<least>> \o Sorted(S \ {least})

TopicsOf(cands) == Sorted({cands[i].topic : i \in 1..Len(cands)})

\* lines 265-267: by_topic[t]
ByTopic(cands, t) == SelectSeq(cands, LAMBDA q : q.topic = t)

\* The allocation loop (lines 275-289).  Its state is the record of
\* allocation, remaining, the position t of the for loop in topics,
\* made_progress and the place in the loop: "while" is the test of line 278,
\* "for" the head of the for loop, "allocated" the line after the loop.
AllocInit(cnt, n) ==
    [allocation |-> [k \in 1..Len(cnt) |-> 0], remaining |-> n, t |-> 1,
     made_progress |-> FALSE, pc |-> "while"]

\* a plausible slip: the for loop does not stop when no slot remains
ForBreak_Never(rem) == FALSE

\* lines 281-282
ForBreak(rem) == rem = 0

\* a plausible slip: a topic is filled before the next one is looked at
AfterGrant_Stay(t) == t

\* line 280: the for loop goes on to the next topic after a grant
AfterGrant(t) == t + 1

\* a plausible slip: a grant does not count down
Granted_Keep(rem) == rem

\* line 285
Granted(rem) == rem - 1

\* one step of the loop
AllocNext(cnt, st) ==
    IF st.pc = "while" THEN
        IF st.remaining > 0                                    \* line 278
        THEN [st EXCEPT !.made_progress = FALSE, !.t = 1, !.pc = "for"]
        ELSE [st EXCEPT !.pc = "allocated"]
    ELSE IF st.t > Len(cnt) \/ ForBreak(st.remaining)
    THEN \* the for loop is left; lines 287-289
         [st EXCEPT !.pc = IF st.made_progress THEN "while" ELSE "allocated"]
    ELSE IF st.allocation[st.t] < cnt[st.t]                    \* lines 283-286
    THEN [st EXCEPT !.allocation[st.t] = @ + 1, !.remaining = Granted(@),
                    !.made_progress = TRUE, !.t = AfterGrant(st.t)]
    ELSE [st EXCEPT !.t = @ + 1]

RECURSIVE AllocRun(_, _)
AllocRun(cnt, st) ==
    IF st.pc = "allocated" THEN st.allocation ELSE AllocRun(cnt, AllocNext(cnt, st))

\* the allocation the loop ends with, in the order of topics
Allocate(cnt, n) == AllocRun(cnt, AllocInit(cnt, n))

Min(a, b) == IF a <= b THEN a ELSE b

RECURSIVE Sum(_)
Sum(xs) == IF xs = <<>> THEN 0 ELSE Head(xs) + Sum(Tail(xs))

\* a plausible slip: random.choices in place of random.sample, a candidate
\* may be drawn more than once
Draws_WithReplacement(cands, topics, alloc) ==
    LET total == Sum(alloc)
        picks == { f \in [1..total -> 1..Len(cands)] :
                     \A k \in 1..Len(topics) :
                         Cardinality({i \in 1..total : cands[f[i]].topic = topics[k]})
                           = alloc[k] }
    IN  { [i \in 1..total |-> cands[f[i]]] : f \in picks }

\* lines 292-301: `selected` after the per-topic random.sample and the
\* shuffle is any arrangement of distinct candidates (by position) that
\* takes allocation[t] of them from by_topic[t]
Draws(cands, topics, alloc) ==
    LET total == Sum(alloc)
        picks == { f \in [1..total -> 1..Len(cands)] :
                     /\ \A i, j \in 1..total : f[i] = f[j] => i = j
                     /\ \A k \in 1..Len(topics) :
                           Cardinality({i \in 1..total : cands[f[i]].topic = topics[k]})
                             = alloc[k] }
    IN  { [i \in 1..total |-> cands[f[i]]] : f \in picks }

\* a plausible slip: the new set starts empty instead of as a copy
NewUsed_OnlySelected(used, selected) ==
    {question_id(selected[i]) : i \in 1..Len(selected)}

\* lines 304-306
NewUsed(used, selected) ==
    used \cup {question_id(selected[i]) : i \in 1..Len(selected)}

\* the returns of the function: the pairs (selected, new_used) it can give
SampleReturns(qs, n_desired, used, avoid_used) ==
    LET cands == Candidates(qs, used, avoid_used)
        topics == TopicsOf(cands)
        cnt == [k \in 1..Len(topics) |-> Len(ByTopic(cands, topics[k]))]
        alloc == Allocate(cnt, Min(n_desired, Len(cands)))
    IN  IF cands = <<>>
        THEN {[selected |-> <<>>, new_used |-> used]}          \* lines 257-258
        ELSE {[selected |-> s, new_used |-> NewUsed(used, s)] :
                 s \in Draws(cands, topics, alloc)}

\* one call sample_questions_even_by_topic(questions, n_desired, used_ids,
\* avoid_used); the caller's set is passed and is not assigned to
SampleQuestions ==
    /\ pc = "sample"
    /\ IsNone(sample)
    /\ \E n_desired \in 0..(Len(questions) + 1), avoid_used \in BOOLEAN :
          \E r \in SampleReturns(questions, n_desired, used_ids, avoid_used) :
              sample' = Some([n_desired |-> n_desired, avoid_used |-> avoid_used,
                              selected |-> r.selected, new_used |-> r.new_used])
    /\ UNCHANGED <<headerVars, parseVars, bankVars, pc, questions, storeVars,
                   selectVars, used_ids, allocVars, pdfVars, sessionVars, usageVars>>

\* the pools handed to the sampler: records of two topics, one of them
\* without a question page, two of them with the same identifier
PoolRecords ==
    { Record(13, 1, FALSE, Some(1), None, Some(1), Some(2)),
      Record(13, 2, FALSE, Some(2), None, Some(3), None),
      Record(13, 2, FALSE, Some(2), None, Some(9), None),
      Record(13, 3, FALSE, None, None, None, Some(4)),
      Record(14, 0, TRUE, None, None, Some(5), Some(6)) }

MaxPool == 3

Pools == UNION {[1..n -> PoolRecords] : n \in 0..MaxPool}

\* the identifiers a used-set is made of: of records of the pools and of a
\* record that is in no pool
UsedIdentifiers ==
    { question_id(Record(13, 1, FALSE, None, None, None, None)),
      question_id(Record(14, 0, TRUE, None, None, None, None)),
      question_id(Record(15, 4, FALSE, None, None, None, None)) }

InitSample ==
    /\ IdleHeader /\ IdleParse /\ IdleBank /\ IdleStore /\ IdleSelect
    /\ questions \in Pools
    /\ used_ids \in SUBSET UsedIdentifiers
    /\ sample = None
    /\ IdleAlloc /\ IdlePdf /\ IdleSession /\ IdleUsage
    /\ pc = "sample"

NextSample == SampleQuestions

SpecSample == InitSample /\ [][NextSample]_vars

----------------------------------------------------------------------------
(* SpecAlloc: the allocation loop of the sampler step by step, on the      *)
(* candidate counts of the topics.                                         *)

AllocState ==
    [allocation |-> allocation, remaining |-> remaining, t |-> topic_index,
     made_progress |-> made_progress, pc |-> pc]

StepTo(st) ==
    /\ allocation' = st.allocation
    /\ remaining' = st.remaining
    /\ topic_index' = st.t
    /\ made_progress' = st.made_progress
    /\ pc' = st.pc
    /\ UNCHANGED <<headerVars, parseVars, bankVars, questions, storeVars,
                   selectVars, sampleVars, counts, pdfVars, sessionVars, usageVars>>

\* line 278 and, when the test holds, line 279
WhileTest == pc = "while" /\ StepTo(AllocNext(counts, AllocState))

\* lines 280-289: one round of the for loop, or leaving it
ForStep == pc = "for" /\ StepTo(AllocNext(counts, AllocState))

MaxTopics == 3
MaxCount == 5
MaxDesired == 9

\* every topic of by_topic has a candidate; n = min(n_desired, len(candidates))
InitAlloc ==
    /\ IdleHeader /\ IdleParse /\ IdleBank /\ IdleStore /\ IdleSelect /\ IdleSample
    /\ IdlePdf /\ IdleSession /\ IdleUsage
    /\ questions = <<>>
    /\ counts \in UNION {[1..k -> 1..MaxCount] : k \in 1..MaxTopics}
    /\ \E n_desired \in 0..MaxDesired :
          LET st == AllocInit(counts, Min(n_desired, Sum(counts)))
          IN  /\ allocation = st.allocation
              /\ remaining = st.remaining
              /\ topic_index = st.t
              /\ made_progress = st.made_progress
              /\ pc = st.pc

NextAlloc == WhileTest \/ ForStep

SpecAlloc == InitAlloc /\ [][NextAlloc]_vars

\* SpecLoop: the loop on every n_desired, the negative ones and those above
\* the number of candidates included.  The loop is straight-line code that
\* is run to its end, so a step that can be taken is taken.
MaxLoopTopics == 2
MaxLoopCount == 3
MaxBelow == 2

InitLoop ==
    /\ IdleHeader /\ IdleParse /\ IdleBank /\ IdleStore /\ IdleSelect /\ IdleSample
    /\ IdlePdf /\ IdleSession /\ IdleUsage
    /\ questions = <<>>
    /\ counts \in UNION {[1..k -> 1..MaxLoopCount] : k \in 1..MaxLoopTopics}
    /\ \E n_desired \in (0 - MaxBelow)..(MaxLoopTopics * MaxLoopCount + 1) :
          LET st == AllocInit(counts, Min(n_desired, Sum(counts)))   \* lines 261, 276
          IN  /\ allocation = st.allocation
              /\ remaining = st.remaining
              /\ topic_index = st.t
              /\ made_progress = st.made_progress
              /\ pc = st.pc

SpecLoop == InitLoop /\ [][NextAlloc]_vars /\ WF_vars(NextAlloc)

----------------------------------------------------------------------------
(* The document builders (pdf_utils.py 6-67).  A document is the list of   *)
(* the 1-based source pages added to the writer.  A builder either writes  *)
(* its document, after the loop, or raises inside the loop and writes      *)
(* nothing.                                                                *)

Written(doc) == [result |-> "written", doc |-> doc]
Raised(error) == [result |-> error, doc |-> <<>>]

\* writer.add_page(reader.pages[page - 1]) for the page references in order,
\* the reader having n pages; a reference is what stands left of "- 1":
\* None - 1 raises TypeError, an index n or more raises IndexError
RECURSIVE AddPages(_, _, _)
AddPages(refs, n, doc) ==
    IF refs = <<>> THEN Written(doc)
    ELSE IF IsNone(Head(refs)) THEN Raised("TypeError")
    ELSE IF Get(Head(refs)) - 1 >= n THEN Raised("IndexError")
    ELSE AddPages(Tail(refs), n, Append(doc, Get(Head(refs))))

\* lines 15-17: every record's question_page is used, with no test for None
build_question_pdf(qs, n) ==
    AddPages([i \in 1..Len(qs) |-> qs[i].question_page], n, <<>>)

\* lines 34-38: records without a solution page are skipped
build_solution_pdf(qs, n) ==
    LET with_solution == SelectSeq(qs, LAMBDA q : ~IsNone(q.solution_page))
    IN  AddPages([i \in 1..Len(with_solution) |-> with_solution[i].solution_page], n, <<>>)

\* lines 58-62: the question page, then the solution page, each if present
RECURSIVE Interleaved(_)
Interleaved(qs) ==
    IF qs = <<>> THEN <<>>
    ELSE (IF IsNone(Head(qs).question_page) THEN <<>> ELSE <<Head(qs).question_page>>)
         \o (IF IsNone(Head(qs).solution_page) THEN <<>> ELSE <<Head(qs).solution_page>>)
         \o Interleaved(Tail(qs))

build_interleaved_q_and_a_pdf(qs, n) == AddPages(Interleaved(qs), n, <<>>)

\* the output file after a builder ended with r: written anew, or as it was
FileAfter(old, r) == IF r.result = "written" THEN Some(r.doc) ELSE old

\* one call of each builder on the caller's record list
BuildQuestionPdf ==
    /\ pc = "pdf"
    /\ LET r == build_question_pdf(questions, src_pages)
       IN  /\ output' = [output EXCEPT !.q = FileAfter(@, r)]
           /\ outcome' = [call |-> "build_question_pdf", result |-> r.result]
    /\ UNCHANGED <<headerVars, parseVars, bankVars, pc, questions, storeVars,
                   selectVars, sampleVars, allocVars, src_pages, sessionVars, usageVars>>

BuildSolutionPdf ==
    /\ pc = "pdf"
    /\ LET r == build_solution_pdf(questions, src_pages)
       IN  /\ output' = [output EXCEPT !.s = FileAfter(@, r)]
           /\ outcome' = [call |-> "build_solution_pdf", result |-> r.result]
    /\ UNCHANGED <<headerVars, parseVars, bankVars, pc, questions, storeVars,
                   selectVars, sampleVars, allocVars, src_pages, sessionVars, usageVars>>

BuildInterleavedPdf ==
    /\ pc = "pdf"
    /\ LET r == build_interleaved_q_and_a_pdf(questions, src_pages)
       IN  /\ output' = [output EXCEPT !.qa = FileAfter(@, r)]
           /\ outcome' = [call |-> "build_interleaved_q_and_a_pdf", result |-> r.result]
    /\ UNCHANGED <<headerVars, parseVars, bankVars, pc, questions, storeVars,
                   selectVars, sampleVars, allocVars, src_pages, sessionVars, usageVars>>

\* the records handed to the builders: with and without each page
PdfRecords ==
    { Record(13, 1, FALSE, Some(1), None, Some(1), Some(2)),
      Record(13, 2, FALSE, Some(2), None, Some(3), None),
      Record(13, 3, FALSE, None, None, None, Some(4)),
      Record(13, 4, FALSE, None, None, None, None),
      Record(14, 0, TRUE, None, None, Some(2), Some(1)) }

MaxList == 2
MaxSourcePages == 4

RecordLists == UNION {[1..n -> PdfRecords] : n \in 0..MaxList}

InitPdf ==
    /\ IdleHeader /\ IdleParse /\ IdleBank /\ IdleStore /\ IdleSelect
    /\ IdleSample /\ IdleAlloc /\ IdleSession /\ IdleUsage
    /\ questions \in RecordLists
    /\ src_pages \in 2..MaxSourcePages
    /\ output = NoOutput
    /\ outcome = NoOutcome
    /\ pc = "pdf"

NextPdf == BuildQuestionPdf \/ BuildSolutionPdf \/ BuildInterleavedPdf

SpecPdf == InitPdf /\ [][NextPdf]_vars

----------------------------------------------------------------------------
(* SpecSession: one browser session of the application (app.py main).      *)
(* st.session_state["used_ids"] is a list that is only ever read through   *)
(* set(...), so it is held as the set used_ids.  `builds` keeps, for each   *)
(* build since the last reset that got past sampling, its avoid_used and   *)
(* the records it selected.                                                *)

\* a plausible slip: the updated set is not saved back into the session
SessionUsed_Keep(old, updated) == old

\* line 622: st.session_state["used_ids"] = list(updated_used_ids)
SessionUsed(old, updated) == updated

\* lines 626-634: the three builders in turn on the selected records; the
\* first one that raises ends the request, the files written before it stay
AssembleAll(selected, n, old) ==
    LET q == build_question_pdf(selected, n)
        s == build_solution_pdf(selected, n)
        qa == build_interleaved_q_and_a_pdf(selected, n)
    IN  IF q.result # "written" THEN [result |-> q.result, output |-> old]
        ELSE IF s.result # "written"
        THEN [result |-> s.result, output |-> [old EXCEPT !.q = Some(q.doc)]]
        ELSE IF qa.result # "written"
        THEN [result |-> qa.result,
              output |-> [old EXCEPT !.q = Some(q.doc), !.s = Some(s.doc)]]
        ELSE [result |-> "written",
              output |-> [q |-> Some(q.doc), s |-> Some(s.doc), qa |-> Some(qa.doc)]]

MaxQuestions == 1
MaxBuilds == 2

\* lines 563-634: the "Build PDFs" button with the widgets as they stand
BuildPdfs ==
    /\ pc = "session"
    /\ Len(builds) < MaxBuilds
    /\ \E selected_topics \in {None, Some(<<14>>)},
          include_challenges \in BOOLEAN,
          selected_levels \in {Some(<<1, 3>>)},
          num_questions \in 1..MaxQuestions,
          use_all_matching \in BOOLEAN,
          avoid_used \in BOOLEAN :
        LET filtered == select_questions(questions,           \* lines 565-572
                [topics |-> selected_topics,
                 include_challenges |-> include_challenges,
                 levels |-> selected_levels,
                 learning_goals |-> None,
                 require_question_page |-> TRUE,
                 require_solution_page |-> TRUE])
            unused_filtered ==                                 \* lines 575-579
                SelectSeq(filtered, LAMBDA q : question_id(q) \notin used_ids)
            n_desired ==                                       \* lines 592-602
                IF use_all_matching
                THEN IF avoid_used THEN Len(unused_filtered) ELSE Len(filtered)
                ELSE num_questions
        IN  IF filtered = <<>>                                 \* lines 584-586
            THEN /\ outcome' = [call |-> "Build PDFs", result |-> "no match"]
                 /\ UNCHANGED <<used_ids, builds, output>>
            ELSE \E r \in SampleReturns(filtered, n_desired, used_ids, avoid_used) :
                   IF r.selected = <<>>                        \* lines 617-619
                   THEN /\ outcome' = [call |-> "Build PDFs", result |-> "none left"]
                        /\ UNCHANGED <<used_ids, builds, output>>
                   ELSE LET a == AssembleAll(r.selected, src_pages, output)
                        IN  /\ used_ids' = SessionUsed(used_ids, r.new_used)
                            /\ builds' = Append(builds, [avoid_used |-> avoid_used,
                                                         selected |-> r.selected])
                            /\ output' = a.output
                            /\ outcome' = [call |-> "Build PDFs", result |-> a.result]
    /\ UNCHANGED <<headerVars, parseVars, bankVars, pc, questions, storeVars,
                   selectVars, sample, allocVars, src_pages, usageVars>>

\* lines 374-377: the "Reset my question history" button
ResetHistory ==
    /\ pc = "session"
    /\ used_ids' = {}
    /\ builds' = <<>>
    /\ UNCHANGED <<headerVars, parseVars, bankVars, pc, questions, storeVars,
                   selectVars, sample, allocVars, pdfVars, usageVars>>

\* the source document the cached bank was built from
SessionDocument ==
    <<QuestionPage, SolutionPage, Question14Page, Solution14Page,
      ChallengePage, ChallengeSolPage>>

\* how many pages the source document of today may lack at its end
MaxMissing == 2

\* lines 318-334: the bank is the cached one; the source document is there
\* but may be shorter than the one the bank was built from; no identifier
\* is used yet
InitSession ==
    /\ IdleHeader /\ IdleParse /\ IdleBank /\ IdleStore /\ IdleSelect
    /\ IdleAlloc /\ IdleUsage
    /\ questions = PipelineBank(SessionDocument)
    /\ src_pages \in (Len(SessionDocument) - MaxMissing)..Len(SessionDocument)
    /\ used_ids = {}
    /\ sample = None
    /\ builds = <<>>
    /\ output = NoOutput
    /\ outcome = NoOutcome
    /\ pc = "session"

NextSession == BuildPdfs \/ ResetHistory

SpecSession == InitSession /\ [][NextSession]_vars

----------------------------------------------------------------------------
(* The preprocessing summary and the duplicate analysis                    *)
(* (scripts/preprocess_clicker_pdf.py 35-51, scripts/find_duplicates.py    *)
(* 13-65).  The dict page_to_qids is the sequence of its items             *)
(* [key, value] in insertion order.                                        *)

\* page_to_qids[page].append(claim) on the defaultdict(list)
AppendClaim(usage, page, claim) ==
    IF \E i \in 1..Len(usage) : usage[i].key = page
    THEN LET i == CHOOSE i \in 1..Len(usage) : usage[i].key = page
         IN  [usage EXCEPT ![i].value = Append(@, claim)]
    ELSE Append(usage, [key |-> page, value |-> <<claim>>])

\* preprocess_clicker_pdf.py 42-49: one record of the loop
ClaimPages(usage, q) ==
    LET qid == question_id(q)
        u1 == IF IsNone(q.question_page) THEN usage
              ELSE AppendClaim(usage, Get(q.question_page), qid \o <<":", "Q">>)
    IN  IF IsNone(q.solution_page) THEN u1
        ELSE AppendClaim(u1, Get(q.solution_page), qid \o <<":", "S">>)

RECURSIVE UsedPagesFrom(_, _)
UsedPagesFrom(usage, qs) ==
    IF qs = <<>> THEN usage ELSE UsedPagesFrom(ClaimPages(usage, Head(qs)), Tail(qs))

compute_used_pages(qs) == UsedPagesFrom(<<>>, qs)

\* json.dump of the summary writes the int keys of page_usage as strings
SummaryPageUsage(usage) ==
    [i \in 1..Len(usage) |-> [key |-> Dec(usage[i].key), value |-> usage[i].value]]

\* find_duplicates.py 38-41: entry.split(":", 1), or kind "?" without a colon
SplitEntry(entry) ==
    IF \E i \in 1..Len(entry) : entry[i] = ":"
    THEN LET c == CHOOSE i \in 1..Len(entry) :
                     entry[i] = ":" /\ \A j \in 1..(i - 1) : entry[j] # ":"
         IN  [base_id |-> SubSeq(entry, 1, c - 1), kind |-> SubSeq(entry, c + 1, Len(entry))]
    ELSE [base_id |-> entry, kind |-> <<"?">>]

\* find_duplicates.py 29-46: the set of pages of kind `kind` of a base id,
\* the keys read back with int(k)
PagesMap(raw_page_usage, kind, base_id) ==
    { ToInt(raw_page_usage[i].key) :
        i \in { i \in 1..Len(raw_page_usage) :
                  \E j \in 1..Len(raw_page_usage[i].value) :
                      SplitEntry(raw_page_usage[i].value[j])
                        = [base_id |-> base_id, kind |-> kind] } }

\* lines 43-46: the keys of q_pages_map (kind "Q") and s_pages_map ("S")
KeysOfKind(raw_page_usage, kind) ==
    LET listed == UNION { {raw_page_usage[i].value[j] :
                              j \in 1..Len(raw_page_usage[i].value)} :
                          i \in 1..Len(raw_page_usage) }
    IN  { SplitEntry(e).base_id : e \in {e \in listed : SplitEntry(e).kind = kind} }

\* find_duplicates.py 13-65
analyze_duplicates(raw_page_usage) ==
    [all_ids |-> KeysOfKind(raw_page_usage, <<"Q">>) \cup KeysOfKind(raw_page_usage, <<"S">>),
     duplicates |-> { b \in KeysOfKind(raw_page_usage, <<"Q">>) :
                        Cardinality(PagesMap(raw_page_usage, <<"Q">>, b)) > 1 }]

\* preprocess_clicker_pdf.py 135: page_to_qids = compute_used_pages(questions)
ComputeUsedPages ==
    /\ pc = "usage"
    /\ IsNone(page_usage)
    /\ page_usage' = Some(compute_used_pages(questions))
    /\ UNCHANGED <<headerVars, parseVars, bankVars, pc, questions, storeVars,
                   selectVars, sampleVars, allocVars, pdfVars, sessionVars, duplicates>>

\* find_duplicates.py 78-79 on the summary file written with the dict
AnalyzeDuplicates ==
    /\ pc = "usage"
    /\ ~IsNone(page_usage)
    /\ IsNone(duplicates)
    /\ duplicates' = Some(analyze_duplicates(SummaryPageUsage(Get(page_usage))))
    /\ UNCHANGED <<headerVars, parseVars, bankVars, pc, questions, storeVars,
                   selectVars, sampleVars, allocVars, pdfVars, sessionVars, page_usage>>

\* the records handed to compute_used_pages: two records with the same
\* question page, two with the same identifier and different question pages
UsageRecords ==
    { Record(13, 1, FALSE, Some(1), None, Some(1), Some(2)),
      Record(13, 2, FALSE, Some(2), None, Some(1), Some(3)),
      Record(13, 1, FALSE, Some(1), None, Some(4), None),
      Record(14, 0, TRUE, None, None, None, Some(12)) }

MaxUsage == 3

UsageLists == UNION {[1..n -> UsageRecords] : n \in 0..MaxUsage}

InitUsage ==
    /\ IdleHeader /\ IdleParse /\ IdleBank /\ IdleStore /\ IdleSelect
    /\ IdleSample /\ IdleAlloc /\ IdlePdf /\ IdleSession
    /\ questions \in UsageLists
    /\ page_usage = None
    /\ duplicates = None
    /\ pc = "usage"

NextUsage == ComputeUsedPages \/ AnalyzeDuplicates

SpecUsage == InitUsage /\ [][NextUsage]_vars

----------------------------------------------------------------------------
(* SpecCache: the start of main, run after run (app.py 318-324).  pages is  *)
(* the document found at SRC_PDF, file the bank file at BANK_JSON.  Between *)
(* two runs the document at SRC_PDF may be exchanged (lines 21-22 name two  *)
(* documents) and the bank file may be removed.                             *)

\* the two messages of ensure_question_bank (lines 56 and 58)
Built    == [call |-> "ensure_question_bank", result |-> "Question bank built!"]
Existing == [call |-> "ensure_question_bank", result |-> "Using existing question bank"]

\* ensure_question_bank() (lines 50-58)
EnsureQuestionBank ==
    /\ pc = "ensure"
    /\ IF IsNone(file)
       THEN LET built_entries == parse_pdf_to_entries(pages)
                built == build_question_bank(built_entries)
            IN  /\ file' = Some(DumpBank(built))
                /\ outcome' = Built
       ELSE /\ file' = file
            /\ outcome' = Existing
    /\ pc' = "load"
    /\ UNCHANGED <<headerVars, parseVars, bankVars, questions, loaded, selectVars,
                   sampleVars, allocVars, src_pages, output, sessionVars, usageVars>>

\* questions = load_question_bank_json(BANK_JSON) (line 324); the run ends
LoadQuestionBank ==
    /\ pc = "load"
    /\ questions' = LoadBank(Get(file))
    /\ pc' = "ensure"
    /\ UNCHANGED <<headerVars, parseVars, bankVars, storeVars, selectVars, appVars>>

\* the documents that SRC_PDF may hold
SourceDocuments ==
    {SessionDocument,
     <<QuestionPage, SolutionPage, Question14Page, Solution14Page>>,
     <<Question14Page, Solution14Page, QuestionPage, SolutionPage>>,
     <<ChallengePage, ChallengeSolPage>>,
     <<QuestionPlusPage>>,
     <<IntroPage>>}

\* between two runs: another document is put at SRC_PDF
ReplaceSource ==
    /\ pc = "ensure"
    /\ pages' \in SourceDocuments \ {pages}
    /\ UNCHANGED <<headerVars, page_index, current_topic, bankVars, pc, callerVars>>

\* between two runs: the bank file is removed
RemoveBankFile ==
    /\ pc = "ensure"
    /\ ~IsNone(file)
    /\ file' = None
    /\ UNCHANGED <<headerVars, parseVars, bankVars, pc, questions, loaded,
                   selectVars, appVars>>

\* before the first run: a document at SRC_PDF (line 318), no bank file
InitCache ==
    /\ IdleHeader /\ IdleBank /\ IdleCaller
    /\ pages \in SourceDocuments
    /\ page_index = 1
    /\ current_topic = None
    /\ pc = "ensure"

NextCache == EnsureQuestionBank \/ LoadQuestionBank \/ ReplaceSource \/ RemoveBankFile

SpecCache == InitCache /\ [][NextCache]_vars

----------------------------------------------------------------------------
(* Properties of the header patterns (SpecHeader)                          *)

\* C2: every header written after the grammar, with topic and question
\* number inside the ranges of both patterns, is matched by both patterns
\* and read as its topic, question number, level and list of goal codes.
\* (Fails: the pattern of parsing.py has no "+" after the level, the one of
\* regexes.py takes a single goal code.)
C2_GrammarHeadersClassified ==
    \A g \in GrammarParams :
        header = HeaderOf(g) =>
            /\ ~IsNone(m_parsing) => Get(m_parsing) = Expected(g)
            /\ ~IsNone(m_regexes) => Get(m_regexes) = Expected(g)

----------------------------------------------------------------------------
(* Properties of the pipeline (Spec)                                       *)

ExampleDocument == <<QuestionPlusPage, SolutionPage>>

\* C1: the two-page document "T13Q7: Level 3+ (L.G. 11)", "T13Q7: Solution"
\* yields exactly one record: topic 13, qnum 7, level 3, goals ["11"],
\* question_page 1, solution_page 2, not a challenge.
\* (Fails: the extractor's pattern rejects "Level 3+".)
C1_EndToEndExample ==
    (pc = "done" /\ pages = ExampleDocument) =>
        LET qs == Values(bank)
        IN  /\ Len(qs) = 1
            /\ qs[1].topic = 13
            /\ qs[1].qnum = 7
            /\ qs[1].level = Some(3)
            /\ qs[1].learning_goals = Some(<< <<"1","1">> >>)
            /\ qs[1].question_page = Some(1)
            /\ qs[1].solution_page = Some(2)
            /\ qs[1].is_challenge = FALSE

\* the header of a page, and whether a question or solution header matches it
QOrSHeader(lines) ==
    /\ lines # <<>>
    /\ \/ QUESTION_HEADER_RE(HeaderLine(lines)).matched
       \/ SOLUTION_HEADER_RE(HeaderLine(lines)).matched

\* a page that reaches the challenge branches: its header has the challenge
\* marker or is a challenge-solution header, and is no question or solution
\* header (those are tried first)
ChallengeHeaderPage(lines) ==
    /\ lines # <<>>
    /\ ~QOrSHeader(lines)
    /\ \/ CHALLENGE_HEADER_RE(HeaderLine(lines))
       \/ CHALLENGE_SOLUTION_HEADER_RE(HeaderLine(lines))

\* the topic of the last question or solution header among pages 1..j
RECURSIVE LastTopic(_, _)
LastTopic(pgs, j) ==
    IF j = 0 THEN None
    ELSE IF QOrSHeader(pgs[j])
         THEN IF QUESTION_HEADER_RE(HeaderLine(pgs[j])).matched
              THEN Some(ToInt(QUESTION_HEADER_RE(HeaderLine(pgs[j])).g1))
              ELSE Some(ToInt(SOLUTION_HEADER_RE(HeaderLine(pgs[j])).g1))
         ELSE LastTopic(pgs, j - 1)

AtPage == pc = "parse" /\ page_index <= Len(pages)

C6_Step ==
    (AtPage /\ ChallengeHeaderPage(pages[page_index])) =>
        /\ entries' # entries => \E j \in 1..(page_index - 1) : QOrSHeader(pages[j])
        /\ IsNone(current_topic) =>
              /\ entries' = entries
              /\ page_index' = page_index + 1
              /\ pc' = "parse"

C7_Entries ==
    /\ \A i \in 1..Len(entries) :
          /\ entries[i].page \in 1..(page_index - 1)
          /\ entries[i].kind \in ChallengeKinds =>
                /\ entries[i].qnum = 0
                /\ Some(entries[i].topic) = LastTopic(pages, entries[i].page - 1)
    /\ \A i, j \in 1..Len(entries) : i < j => entries[i].page < entries[j].page

C7_Step ==
    (AtPage /\ entries' # entries /\ entries'[Len(entries')].kind \in ChallengeKinds)
        => current_topic' = current_topic

\* C7: a challenge entry has qnum 0 and the topic of the last question or
\* solution header before its page; a challenge page leaves current_topic as
\* it is; the entries are in ascending page order, at most one per page.
C7_ChallengeEntries == []C7_Entries /\ [][C7_Step]_vars

\* a challenge entry was emitted after a question and a solution page of
\* different topics
C7_Witness ==
    /\ Len(entries) = 3
    /\ entries[1].kind = "question"
    /\ entries[2].kind = "solution"
    /\ entries[2].topic # entries[1].topic
    /\ entries[3].kind \in ChallengeKinds
    /\ current_topic = Some(entries[2].topic)

----------------------------------------------------------------------------
(* Properties of build_question_bank (SpecBank)                            *)

IdentityOf(q) == <<q.topic, q.qnum, q.is_challenge>>

\* C3: no two records of the bank share (topic, qnum, is_challenge); a
\* challenge entry and a non-challenge entry of one (topic, qnum) give one
\* record.
C3_UniqueIdentity ==
    /\ \A i, j \in 1..Len(bank) :
          i < j => IdentityOf(bank[i].value) # IdentityOf(bank[j].value)
    /\ \A i, j \in 1..Len(bank) :
          i < j => <<bank[i].value.topic, bank[i].value.qnum>>
                     # <<bank[j].value.topic, bank[j].value.qnum>>

\* a challenge entry and a non-challenge entry of the same (topic, qnum) were
\* folded into one record
C3_Witness ==
    /\ pc = "done"
    /\ Len(entries) = 2
    /\ entries[1].kind \in ChallengeKinds
    /\ entries[2].kind \notin ChallengeKinds
    /\ entries[1].topic = entries[2].topic
    /\ entries[1].qnum = entries[2].qnum
    /\ Len(bank) = 1

C4_Step ==
    \A i \in 1..Len(bank) :
        bank[i].value.is_challenge =>
            /\ Len(bank') >= i
            /\ IdentityOf(bank'[i].value) = IdentityOf(bank[i].value)

\* C4: once a record is a challenge after some entry, it is one after every
\* later entry.
C4_ChallengeMonotonic == [][C4_Step]_vars

\* a non-challenge entry was folded into a record already marked challenge
C4_Witness ==
    /\ entry_index = 3
    /\ entries[1].kind \in ChallengeKinds
    /\ entries[2].kind \notin ChallengeKinds
    /\ entries[1].topic = entries[2].topic
    /\ entries[1].qnum = entries[2].qnum
    /\ bank[1].value.is_challenge

\* the two halves of one record: a question and a solution entry, or a
\* challenge question and a challenge solution entry, of one (topic, qnum)
TwoHalves(a, b) ==
    /\ a.topic = b.topic
    /\ a.qnum = b.qnum
    /\ {a.kind, b.kind} \in {{"question", "solution"}, {"challenge_q", "challenge_sol"}}

\* C5: the bank built from the two halves of a record is the same in either
\* order of arrival.
C5_HalvesCommute ==
    (pc = "done" /\ Len(entries) = 2 /\ TwoHalves(entries[1], entries[2])) =>
        Values(bank) = build_question_bank(<<entries[2], entries[1]>>)

\* the solution half arrived first and the record has both halves
C5_Witness ==
    /\ pc = "done"
    /\ Len(entries) = 2
    /\ TwoHalves(entries[1], entries[2])
    /\ entries[1].kind \in {"solution", "challenge_sol"}
    /\ Len(bank) = 1
    /\ ~IsNone(bank[1].value.question_page)
    /\ ~IsNone(bank[1].value.solution_page)

----------------------------------------------------------------------------
(* Properties of the bank store (SpecStore)                                *)

\* C8: what load_question_bank_json returns after save_question_bank_json
\* equals the saved records field for field, absent fields being None.
C8_RoundTrip == ~IsNone(loaded) => Get(loaded) = questions

\* a record whose optional fields are all None was saved and loaded
C8_Witness ==
    /\ ~IsNone(loaded)
    /\ Len(questions) = 1
    /\ Len(Get(loaded)) = 1
    /\ IsNone(questions[1].solution_text)
    /\ IsNone(questions[1].question_page)
    /\ IsNone(questions[1].solution_page)
    /\ IsNone(questions[1].level)
    /\ IsNone(questions[1].learning_goals)
    /\ IsNone(Get(loaded)[1].solution_text)
    /\ IsNone(Get(loaded)[1].learning_goals)

----------------------------------------------------------------------------
(* Properties of select_questions (SpecSelect)                             *)

InList(xs, q) == \E i \in 1..Len(xs) : xs[i] = q

\* C9: with include_challenges false no challenge record is in the output,
\* and with a topic list given no record, challenge or not, of a topic outside
\* the list is in the output.
C9_ChallengeAndTopicFilter ==
    ~IsNone(result) =>
        \A i \in 1..Len(Get(result)) :
            LET q == Get(result)[i]
                a == Get(sel_args)
            IN  /\ ~a.include_challenges => ~q.is_challenge
                /\ ~IsNone(a.topics) => ListHas(Get(a.topics), q.topic)

\* a bank with a challenge record of a topic outside the requested list, and
\* challenges included: the record is not in the output, another record is
C9_Witness ==
    /\ ~IsNone(result)
    /\ Get(sel_args).include_challenges
    /\ ~IsNone(Get(sel_args).topics)
    /\ \E i \in 1..Len(questions) :
          /\ questions[i].is_challenge
          /\ ~ListHas(Get(Get(sel_args).topics), questions[i].topic)
          /\ ~InList(Get(result), questions[i])
    /\ Len(Get(result)) = 1

WithLevels(a, levels) == [a EXCEPT !.levels = levels]

LevelArguments == {None, Some(<<3>>), Some(<<1, 3>>), Some(<<>>), Some(<<2>>)}

\* C10: with a level list given, a non-challenge record that the other
\* filters keep is dropped iff its level is None or not in the list; whether
\* a challenge record is in the output is the same for every level argument.
C10_LevelFilter ==
    ~IsNone(result) =>
        LET a == Get(sel_args)
            unfiltered == select_questions(questions, WithLevels(a, None))
        IN  /\ ~IsNone(a.levels) =>
                  \A i \in 1..Len(questions) :
                      LET q == questions[i]
                      IN  ~q.is_challenge =>
                            (InList(Get(result), q) <=>
                                /\ InList(unfiltered, q)
                                /\ ~IsNone(q.level)
                                /\ ListHas(Get(a.levels), Get(q.level)))
            /\ \A l \in LevelArguments :
                  SelectSeq(select_questions(questions, WithLevels(a, l)),
                            LAMBDA q : q.is_challenge)
                    = SelectSeq(Get(result), LAMBDA q : q.is_challenge)

\* a level list was given; a non-challenge record without a level was
\* dropped and a challenge record without a level was kept
C10_Witness ==
    /\ ~IsNone(result)
    /\ ~IsNone(Get(sel_args).levels)
    /\ Len(questions) = 2
    /\ ~questions[1].is_challenge
    /\ IsNone(questions[1].level)
    /\ InList(select_questions(questions, WithLevels(Get(sel_args), None)), questions[1])
    /\ ~InList(Get(result), questions[1])
    /\ questions[2].is_challenge
    /\ IsNone(questions[2].level)
    /\ InList(Get(result), questions[2])

\* the record has a goal that is in the requested list
SharesGoal(q, goals) ==
    /\ ~IsNone(q.learning_goals)
    /\ \E i \in 1..Len(Get(q.learning_goals)) :
          \E j \in 1..Len(goals) : Get(q.learning_goals)[i] = goals[j]

\* C11: with a learning-goal list given, a record (challenge or not) with no
\* goals, or with none of its goals in the list, is not in the output; the
\* challenge records of a bank built from a document have no goals, so no
\* challenge record of such a bank is in the output, whatever
\* include_challenges is.
C11_GoalFilter ==
    (~IsNone(result) /\ ~IsNone(Get(sel_args).learning_goals)) =>
        LET goals == Get(Get(sel_args).learning_goals)
        IN  /\ \A i \in 1..Len(questions) :
                  ~SharesGoal(questions[i], goals) => ~InList(Get(result), questions[i])
            /\ \A i \in 1..Len(Get(result)) : SharesGoal(Get(result)[i], goals)
            /\ questions \in PipelineBanks =>
                  \A i \in 1..Len(Get(result)) : ~Get(result)[i].is_challenge

\* a bank built from a document holds a question with a goal of the list and
\* a challenge with a question page; challenges are included and no other
\* filter is set: the question is returned, the challenge is not
C11_Witness ==
    /\ ~IsNone(result)
    /\ questions \in PipelineBanks
    /\ Get(sel_args).include_challenges
    /\ ~IsNone(Get(sel_args).learning_goals)
    /\ IsNone(Get(sel_args).topics)
    /\ IsNone(Get(sel_args).levels)
    /\ ~Get(sel_args).require_solution_page
    /\ Len(questions) = 2
    /\ questions[2].is_challenge
    /\ ~IsNone(questions[2].question_page)
    /\ Get(result) = <<questions[1]>>

\* x may stand before y: ascending by topic, then non-challenge before
\* challenge, then question number
InOrder(x, y) ==
    \/ x.topic < y.topic
    \/ x.topic = y.topic /\ ~x.is_challenge /\ y.is_challenge
    \/ x.topic = y.topic /\ x.is_challenge = y.is_challenge /\ x.qnum <= y.qnum

C12_Sorted ==
    ~IsNone(result) =>
        \A i \in 1..(Len(Get(result)) - 1) : InOrder(Get(result)[i], Get(result)[i + 1])

\* the call gave its result and the caller's bank is what it was
C12_Step == IsNone(result) /\ ~IsNone(result') => questions' = questions

\* C12: the output of select_questions is in ascending order of (topic,
\* non-challenge before challenge, question number) for every order of the
\* bank, and the call leaves the bank and its records as they were.
C12_SortedAndUnmodified == []C12_Sorted /\ [][C12_Step]_vars

\* the bank holds a challenge of topic 13 and then a question of topic 13,
\* both kept: the output is the bank in the opposite order
C12_Witness ==
    /\ ~IsNone(result)
    /\ Len(questions) = 2
    /\ questions[1].is_challenge
    /\ questions[1].topic = 13
    /\ ~questions[2].is_challenge
    /\ questions[2].topic = 13
    /\ Get(result) = <<questions[2], questions[1]>>

----------------------------------------------------------------------------
(* Properties of the sampler (SpecSample, SpecAlloc)                       *)

\* the positions of the pool that are candidates of the call: records with a
\* question page, less the used ones when avoid_used is set
CandidatePositions(avoid_used) ==
    { i \in 1..Len(questions) :
        /\ ~IsNone(questions[i].question_page)
        /\ avoid_used => question_id(questions[i]) \notin used_ids }

CountOfTopic(xs, t) == Cardinality({i \in 1..Len(xs) : xs[i].topic = t})

\* C13: the sampler returns no more than n_desired records and no more than
\* there are candidates, and of no topic more records than the topic has
\* candidates.
C13_SampleBounds ==
    ~IsNone(sample) =>
        LET s == Get(sample)
            cands == CandidatePositions(s.avoid_used)
        IN  /\ Len(s.selected) <= s.n_desired
            /\ Len(s.selected) <= Cardinality(cands)
            /\ \A t \in {questions[i].topic : i \in 1..Len(questions)} :
                  CountOfTopic(s.selected, t)
                    <= Cardinality({i \in cands : questions[i].topic = t})

\* a pool of three records, one of them used and avoided, the two others
\* candidates of two topics, and one record wanted: one record is returned
C13_Witness ==
    /\ ~IsNone(sample)
    /\ Get(sample).avoid_used
    /\ Get(sample).n_desired = 1
    /\ Len(questions) = 3
    /\ Cardinality(CandidatePositions(TRUE)) = 2
    /\ Cardinality(CandidatePositions(FALSE)) = 3
    /\ Cardinality({questions[i].topic : i \in CandidatePositions(TRUE)}) = 2
    /\ Len(Get(sample).selected) = 1

\* C14: with avoid_used true no returned record has its identifier in the
\* used-set that was passed in; no returned record lacks a question page.
C14_AvoidsUsed ==
    ~IsNone(sample) =>
        \A i \in 1..Len(Get(sample).selected) :
            LET q == Get(sample).selected[i]
            IN  /\ Get(sample).avoid_used => question_id(q) \notin used_ids
                /\ ~IsNone(q.question_page)

\* the pool holds a used record with a question page, a record without a
\* question page and a third record; with avoid_used true only the third is
\* returned although two were wanted
C14_Witness ==
    /\ ~IsNone(sample)
    /\ Get(sample).avoid_used
    /\ Get(sample).n_desired = 2
    /\ Len(questions) = 3
    /\ \E i \in 1..3 : /\ question_id(questions[i]) \in used_ids
                       /\ ~IsNone(questions[i].question_page)
    /\ \E i \in 1..3 : /\ question_id(questions[i]) \notin used_ids
                       /\ IsNone(questions[i].question_page)
    /\ Len(Get(sample).selected) = 1

C15_Used ==
    ~IsNone(sample) =>
        Get(sample).new_used
          = used_ids \cup {question_id(Get(sample).selected[i]) :
                              i \in 1..Len(Get(sample).selected)}

C15_Step == IsNone(sample) /\ ~IsNone(sample') => used_ids' = used_ids

\* C15: the used-set returned is the input used-set united with the
\* identifiers of the returned records, and the caller's set is as it was.
C15_UsedSetUnion == []C15_Used /\ [][C15_Step]_vars

\* the input set holds an identifier of no returned record, a returned
\* record's identifier is new, and both are in the set returned
C15_Witness ==
    /\ ~IsNone(sample)
    /\ used_ids # {}
    /\ Len(Get(sample).selected) = 2
    /\ \A i \in 1..2 : question_id(Get(sample).selected[i]) \notin used_ids
    /\ Cardinality(Get(sample).new_used) = Cardinality(used_ids) + 2

\* the allocation loop is over and had n slots to grant
AllocatedFor(n) == pc = "allocated" /\ Sum(allocation) + remaining = n

\* C16: with candidate counts [5,5,5] and n = 9 every topic is granted 3;
\* with counts 1, 5 and 5 (in any order of the topics) and n = 9 the topic
\* of one candidate is granted 1 and the two others 4 each; and the grants
\* of two topics differ by more than one only when the smaller grant is all
\* the candidates of its topic.
C16_FairAllocation ==
    /\ (AllocatedFor(9) /\ counts = <<5, 5, 5>>) => allocation = <<3, 3, 3>>
    /\ (AllocatedFor(9) /\ counts = <<1, 5, 5>>) => allocation = <<1, 4, 4>>
    /\ (AllocatedFor(9) /\ counts = <<5, 1, 5>>) => allocation = <<4, 1, 4>>
    /\ (AllocatedFor(9) /\ counts = <<5, 5, 1>>) => allocation = <<4, 4, 1>>
    /\ pc = "allocated" =>
          \A i, j \in 1..Len(counts) :
              allocation[i] > allocation[j] + 1 => allocation[j] = counts[j]

\* the loop has ended on the counts [1,5,5] with n = 9: the grants are 1, 4, 4
C16_Witness ==
    /\ AllocatedFor(9)
    /\ counts = <<1, 5, 5>>
    /\ allocation = <<1, 4, 4>>
    /\ remaining = 0

----------------------------------------------------------------------------
(* Properties of the session (SpecSession)                                 *)

\* the step is a build that got past sampling
BuildDone == Len(builds') = Len(builds) + 1

\* the step is a reset of the history
IsReset == used_ids' = {} /\ builds' = <<>> /\ UNCHANGED <<output, outcome>>

C17_Step ==
    /\ (BuildDone /\ builds'[Len(builds')].avoid_used) =>
          \A i \in 1..Len(builds'[Len(builds')].selected) :
              \A b \in 1..Len(builds) :
                  ~InList(builds[b].selected, builds'[Len(builds')].selected[i])
    /\ ~IsReset => used_ids \subseteq used_ids'

\* C17: with no reset in between, a record returned by a build with
\* avoid_used true was returned by no earlier build of the session, whatever
\* the avoid_used of the earlier build; and the session's used-set only
\* grows from one reset to the next.
C17_NoRepeats == [][C17_Step]_vars

\* two builds with no reset between them, the first with avoid_used false
\* returning two records, the second with avoid_used true returning the one
\* record left
C17_Witness ==
    /\ Len(builds) = 2
    /\ ~builds[1].avoid_used
    /\ builds[2].avoid_used
    /\ Len(builds[1].selected) = 2
    /\ Len(builds[2].selected) = 1
    /\ Cardinality(used_ids) = 3

----------------------------------------------------------------------------
(* Properties of the document builders (SpecPdf)                           *)

\* the question pages of the records that have one, in list order
QuestionPagesOf(qs) ==
    LET with_page == SelectSeq(qs, LAMBDA q : ~IsNone(q.question_page))
    IN  [i \in 1..Len(with_page) |-> Get(with_page[i].question_page)]

\* C18: build_question_pdf on a list in which some record has no question
\* page (the pages of the others being pages of the source) does not fail:
\* it writes the document of the question pages of the other records, in
\* list order.
C18_SkipsMissingPage ==
    ( /\ outcome.call = "build_question_pdf"
      /\ \E i \in 1..Len(questions) : IsNone(questions[i].question_page)
      /\ \A i \in 1..Len(QuestionPagesOf(questions)) :
            QuestionPagesOf(questions)[i] <= src_pages )
    => /\ outcome.result = "written"
       /\ output.q = Some(QuestionPagesOf(questions))

----------------------------------------------------------------------------
(* Atomicity of a build request (SpecSession)                              *)

C19_Step ==
    \/ /\ BuildDone
       /\ outcome'.result = "written"
       /\ ~IsNone(output'.q) /\ ~IsNone(output'.s) /\ ~IsNone(output'.qa)
       /\ used_ids \subseteq used_ids'
    \/ /\ used_ids' = used_ids
       /\ output' = output
    \/ IsReset

\* C19: a build request either completes, the three documents written and
\* the session's used-set updated, or ends with the used-set and the output
\* documents as they were; a request whose document assembly raises has
\* updated no used-set and written no document.
C19_AllOrNothing == [][C19_Step]_vars

----------------------------------------------------------------------------
(* Properties of the summary and the duplicate analysis (SpecUsage)        *)

\* the positions of the records whose question page is p
ClaimantsOf(p) ==
    {i \in 1..Len(questions) : questions[i].question_page = Some(p)}

\* the entries listed for page p in page_usage
ListedFor(p) ==
    UNION { {Get(page_usage)[i].value[j] : j \in 1..Len(Get(page_usage)[i].value)} :
              i \in {i \in 1..Len(Get(page_usage)) : Get(page_usage)[i].key = p} }

\* C20: when records of more than one identifier claim the same source page
\* as their question page, page_usage lists every claiming identifier with
\* the suffix ":Q" for that page, and analyze_duplicates flags a duplicate
\* among them.
C20_SharedPageFlagged ==
    ~IsNone(duplicates) =>
        \A p \in {Get(questions[i].question_page) :
                    i \in {i \in 1..Len(questions) : ~IsNone(questions[i].question_page)}} :
            Cardinality({question_id(questions[i]) : i \in ClaimantsOf(p)}) > 1 =>
                /\ \A i \in ClaimantsOf(p) :
                      (question_id(questions[i]) \o <<":", "Q">>) \in ListedFor(p)
                /\ \E i \in ClaimantsOf(p) :
                      question_id(questions[i]) \in Get(duplicates).duplicates

----------------------------------------------------------------------------
(* Properties of the banks built from documents (Spec)                     *)

\* C21: in the bank built from a document a record has qnum 0 iff it is a
\* challenge, a regular record has its qnum in 1..100, and a challenge
\* record has neither level nor learning goals.
C21_ZeroIsChallenge ==
    \A i \in 1..Len(bank) :
        LET q == bank[i].value
        IN  /\ q.qnum = 0 <=> q.is_challenge
            /\ ~q.is_challenge => q.qnum \in 1..100
            /\ q.is_challenge => IsNone(q.level) /\ IsNone(q.learning_goals)

\* the bank of a document is built and holds a regular record with level
\* and goals and a challenge record with a question page
C21_Witness ==
    /\ pc = "done"
    /\ \E i \in 1..Len(bank) :
          /\ ~bank[i].value.is_challenge
          /\ bank[i].value.qnum = 7
          /\ ~IsNone(bank[i].value.level)
          /\ ~IsNone(bank[i].value.learning_goals)
    /\ \E i \in 1..Len(bank) :
          /\ bank[i].value.is_challenge
          /\ bank[i].value.qnum = 0
          /\ ~IsNone(bank[i].value.question_page)

QuestionHalf == {"question", "challenge_q"}
SolutionHalf == {"solution", "challenge_sol"}

\* the last entry of the stream with the key `key` and a kind of `kinds`,
\* as an Optional
LastEntry(key, kinds) ==
    LET at == {j \in 1..Len(entries) :
                  entries[j].kind \in kinds /\ <<entries[j].topic, entries[j].qnum>> = key}
    IN  IF at = {} THEN None
        ELSE Some(entries[CHOOSE j \in at : \A k \in at : k <= j])

\* after the whole stream the fields of a record are those of the last
\* entry of each half for its key
C22_Final ==
    pc = "done" =>
        \A i \in 1..Len(bank) :
            LET q == bank[i].value
                eq == LastEntry(bank[i].key, QuestionHalf)
                es == LastEntry(bank[i].key, SolutionHalf)
            IN  /\ ~IsNone(eq) =>
                      /\ q.question_text = Get(eq).text
                      /\ q.question_page = Some(Get(eq).page)
                      /\ q.level = Get(eq).level
                      /\ q.learning_goals = Get(eq).learning_goals
                /\ ~IsNone(es) =>
                      /\ q.solution_text = Some(Get(es).text)
                      /\ q.solution_page = Some(Get(es).page)

\* an entry is folded in: no record goes away, and the records that were
\* there keep the fields of the half the entry is not of
C22_Step ==
    (pc = "build" /\ entry_index' = entry_index + 1) =>
        /\ Len(bank') >= Len(bank)
        /\ \A i \in 1..Len(bank) :
              /\ bank'[i].key = bank[i].key
              /\ entries[entry_index].kind \in QuestionHalf =>
                    /\ bank'[i].value.solution_text = bank[i].value.solution_text
                    /\ bank'[i].value.solution_page = bank[i].value.solution_page
              /\ entries[entry_index].kind \in SolutionHalf =>
                    /\ bank'[i].value.question_text = bank[i].value.question_text
                    /\ bank'[i].value.question_page = bank[i].value.question_page
                    /\ bank'[i].value.level = bank[i].value.level
                    /\ bank'[i].value.learning_goals = bank[i].value.learning_goals

\* C22: build_question_bank is last-write-wins per field and deletes
\* nothing: after the whole stream the question fields (text, page, level,
\* goals) of a record are those of the last question-half entry of its key
\* and its solution fields those of the last solution-half entry; an entry
\* of one half leaves the fields of the other half as they were; the number
\* of records never decreases.
C22_LastWriteWins == []C22_Final /\ [][C22_Step]_vars

\* the stream of a three-page document: a question, its solution, and the
\* same question again; the record has the page of the later question
\* entry and keeps its solution
C22_Witness ==
    /\ pc = "done"
    /\ Len(entries) = 3
    /\ entries[1].kind = "question"
    /\ entries[2].kind = "solution"
    /\ entries[3].kind = "question"
    /\ Len(bank) = 1
    /\ bank[1].value.question_page = Some(3)
    /\ bank[1].value.solution_page = Some(2)

----------------------------------------------------------------------------
(* Properties of the cached bank (SpecCache)                               *)

\* a run of ensure_question_bank parses the source and writes the bank file
\* only when the file is absent, and leaves an existing file as it is
C23_OnlyWhenAbsent ==
    (pc = "ensure" /\ pc' = "load") =>
        /\ (outcome' = Built \/ file' # file) => IsNone(file)
        /\ ~IsNone(file) => (file' = file /\ outcome' = Existing)

\* the bank a run works on is the one parsed from the document at SRC_PDF
C23_BankOfSource ==
    (pc = "load" /\ pc' = "ensure") => questions' = PipelineBank(pages)

\* C23: over any sequence of runs the source is parsed and the bank file
\* written only in a run that finds no bank file, a run that finds the file
\* neither parses nor rewrites it, and the bank a run works on is the one
\* parsed from the source document.
\* (Fails: the file is looked up by its name alone, so a run after the
\* document at SRC_PDF was exchanged works on the bank of the old document.)
C23_CacheOfSource == [][C23_OnlyWhenAbsent /\ C23_BankOfSource]_vars

\* the part of C23 that holds
C23_NeverRewritten == [][C23_OnlyWhenAbsent]_vars

\* a run has loaded the bank of a document other than the one at SRC_PDF
C23_StaleBank ==
    /\ pc = "ensure"
    /\ outcome = Existing
    /\ questions # PipelineBank(pages)

----------------------------------------------------------------------------
(* The size of the sample (SpecSample)                                     *)

\* how often the record r stands in the list
CountIn(list, r) == Cardinality({i \in 1..Len(list) : list[i] = r})

\* no record stands twice in the list
Distinct(list) == \A i, j \in 1..Len(list) : list[i] = list[j] => i = j

\* C24: a call with n_desired >= 0 returns exactly min(n_desired, number of
\* candidates) records, each of them a candidate and none returned more
\* often than it stands among the candidates (so the returned records are
\* pairwise distinct when the candidates are); when n_desired is the number
\* of candidates, as in the "use all matching" mode, every candidate is
\* returned.
C24_ExactlyMin ==
    ~IsNone(sample) =>
        LET s == Get(sample)
            cands == Candidates(questions, used_ids, s.avoid_used)
        IN  /\ s.n_desired >= 0
            /\ Len(s.selected) = Min(s.n_desired, Len(cands))
            /\ \A i \in 1..Len(s.selected) :
                  /\ CountIn(cands, s.selected[i]) >= 1
                  /\ CountIn(s.selected, s.selected[i]) <= CountIn(cands, s.selected[i])
            /\ Distinct(cands) => Distinct(s.selected)
            /\ s.n_desired = Len(cands) =>
                  \A i \in 1..Len(cands) :
                      CountIn(s.selected, cands[i]) = CountIn(cands, cands[i])

\* a pool of three distinct records, one of them used: both candidates are
\* asked for and returned
C24_Witness ==
    /\ ~IsNone(sample)
    /\ Len(questions) = 3
    /\ Distinct(questions)
    /\ Get(sample).avoid_used
    /\ Len(Candidates(questions, used_ids, TRUE)) = 2
    /\ Get(sample).n_desired = 2
    /\ Len(Get(sample).selected) = 2

----------------------------------------------------------------------------
(* Termination of the allocation loop (SpecLoop)                           *)

\* what a step of the loop does to the remaining count: a grant sets
\* made_progress and takes one off, no step adds to it; a sweep is started
\* only with slots remaining, and is followed by another only after a grant
C25_Sweep ==
    /\ remaining' <= remaining
    /\ allocation' # allocation => (remaining' = remaining - 1 /\ made_progress')
    /\ (pc = "while" /\ pc' = "for") => (remaining > 0 /\ ~made_progress')
    /\ (pc = "while" /\ pc' = "allocated") => remaining <= 0
    /\ (pc = "for" /\ pc' = "while") => made_progress
    /\ (pc = "for" /\ pc' = "allocated") => ~made_progress

\* C25: the allocation loop ends for every pool and every n_desired, those
\* below zero and above the number of candidates included: every sweep
\* either grants a slot, which takes one off the remaining count, or grants
\* none and leaves the loop.
C25_Terminates == <>(pc = "allocated") /\ [][C25_Sweep]_vars

\* the loop has ended after several sweeps over two topics
C25_Witness ==
    /\ pc = "allocated"
    /\ Len(counts) = 2
    /\ allocation = <<3, 2>>
    /\ remaining = 0

====
